---- MODULE Spec2Model ----
(***************************************************************************)
(* Model of the editor's synchronization core:                             *)
(*   - fetchWithRetry            (frontend/src/shared/fetchWithRetry.ts)   *)
(*   - the GitHub contents client (frontend/src/api/github.ts)             *)
(*   - the editor session hook    (frontend/src/hooks/useEditorController) *)
(*   - the App handlers that drive the session (frontend/src/App.tsx)      *)
(*                                                                         *)
(* Strings that the code only compares (owner, repo, branch, path) are     *)
(* TLA+ strings chosen without surrounding whitespace, so String.trim()    *)
(* leaves them as they are.  Text that the code converts (file content,    *)
(* the Retry-After header) is a sequence, and the conversion is computed.  *)
(***************************************************************************)
EXTENDS Integers, Sequences, FiniteSets, TLC

\* ------------------------------------------------------------------ bounds
MaxCalls == 2
MaxHdrLen == 2
MaxRetries == 2
ChunkLen == 3
MaxTextLen == 3

\* ------------------------------------------------------- program constants
DefaultRetries == 1
DefaultDelayMs == 1000
MsPerSecond == 1000
Null == -1
EmptySha == 0

\* ------------------------------------------------------------- text coding
\* A text is a sequence of Unicode code points.  A base64 blob is a sequence
\* of sextet values 0..63, with Pad standing for "=" and Newline for "\n".
Pad == 64
Newline == 65
Fail == <<-1>>

RECURSIVE Utf8Bytes(_)
Utf8Bytes(text) ==
  IF text = <<>> THEN <<>>
  ELSE LET c == Head(text)
           enc == IF c < 128 THEN <<c>>
                  ELSE IF c < 2048 THEN <<192 + (c \div 64), 128 + (c % 64)>>
                  ELSE IF c < 65536
                       THEN <<224 + (c \div 4096), 128 + ((c \div 64) % 64), 128 + (c % 64)>>
                       ELSE <<240 + (c \div 262144), 128 + ((c \div 4096) % 64),
                              128 + ((c \div 64) % 64), 128 + (c % 64)>>
       IN enc \o Utf8Bytes(Tail(text))

RECURSIVE Btoa(_)
Btoa(bytes) ==
  IF bytes = <<>> THEN <<>>
  ELSE IF Len(bytes) = 1
       THEN <<bytes[1] \div 4, (bytes[1] % 4) * 16, Pad, Pad>>
  ELSE IF Len(bytes) = 2
       THEN <<bytes[1] \div 4, (bytes[1] % 4) * 16 + (bytes[2] \div 16),
              (bytes[2] % 16) * 4, Pad>>
  ELSE <<bytes[1] \div 4, (bytes[1] % 4) * 16 + (bytes[2] \div 16),
         (bytes[2] % 16) * 4 + (bytes[3] \div 64), bytes[3] % 64>>
       \o Btoa(SubSeq(bytes, 4, Len(bytes)))

\* btoa(str) of the code units taken as bytes
toBase64Narrow(str) == Btoa([i \in 1..Len(str) |-> str[i] % 256])

\* btoa(unescape(encodeURIComponent(str)))
toBase64Unicode(str) == Btoa(Utf8Bytes(str))

RECURSIVE AtobBody(_)
AtobBody(b) ==
  IF Len(b) = 0 THEN <<>>
  ELSE IF Len(b) = 2 THEN <<b[1] * 4 + (b[2] \div 16)>>
  ELSE IF Len(b) = 3
       THEN <<b[1] * 4 + (b[2] \div 16), (b[2] % 16) * 16 + (b[3] \div 4)>>
  ELSE <<b[1] * 4 + (b[2] \div 16), (b[2] % 16) * 16 + (b[3] \div 4),
         (b[3] % 4) * 64 + b[4]>> \o AtobBody(SubSeq(b, 5, Len(b)))

\* atob: whitespace is dropped, one or two trailing "=" are dropped when the
\* length is a multiple of four, and what is left must be sextets whose count
\* is not 1 modulo 4.
Atob(b64) ==
  LET nows == SelectSeq(b64, LAMBDA x : x # Newline)
      n == Len(nows)
      unpadded ==
        IF n > 0 /\ n % 4 = 0 /\ nows[n] = Pad
        THEN IF nows[n - 1] = Pad THEN SubSeq(nows, 1, n - 2)
                                  ELSE SubSeq(nows, 1, n - 1)
        ELSE nows
  IN IF Len(unpadded) % 4 = 1 \/ \E i \in 1..Len(unpadded) : unpadded[i] \notin 0..63
     THEN Fail
     ELSE AtobBody(unpadded)

IsCont(x) == x >= 128 /\ x < 192

\* decodeURIComponent(escape(bytes)): strict UTF-8 decoding, URIError otherwise.
RECURSIVE Utf8Decode(_)
Utf8Decode(bytes) ==
  IF bytes = <<>> THEN <<>>
  ELSE LET b == bytes[1]
           n == Len(bytes)
           need == IF b < 128 THEN 1
                   ELSE IF b >= 194 /\ b < 224 THEN 2
                   ELSE IF b >= 224 /\ b < 240 THEN 3
                   ELSE IF b >= 240 /\ b < 245 THEN 4
                   ELSE 0
       IN IF need = 0 \/ n < need \/ \E i \in 2..need : ~IsCont(bytes[i])
          THEN Fail
          ELSE LET cp == IF need = 1 THEN b
                         ELSE IF need = 2 THEN (b - 192) * 64 + (bytes[2] - 128)
                         ELSE IF need = 3
                              THEN (b - 224) * 4096 + (bytes[2] - 128) * 64 + (bytes[3] - 128)
                              ELSE (b - 240) * 262144 + (bytes[2] - 128) * 4096
                                   + (bytes[3] - 128) * 64 + (bytes[4] - 128)
                   minimal == (need = 3 => cp >= 2048) /\ (need = 4 => cp >= 65536 /\ cp < 1114112)
                              /\ ~(cp >= 55296 /\ cp < 57344)
                   rest == Utf8Decode(SubSeq(bytes, need + 1, n))
               IN IF ~minimal \/ rest = Fail THEN Fail ELSE <<cp>> \o rest

fromBase64Unicode(b64) ==
  LET bytes == Atob(b64) IN IF bytes = Fail THEN Fail ELSE Utf8Decode(bytes)

\* String(data.content).replace(/\n/g, '')
StripNewlines(b64) == SelectSeq(b64, LAMBDA x : x # Newline)

\* The host returns the blob broken into lines of ChunkLen characters, each
\* followed by a newline.
RECURSIVE HostChunk(_)
HostChunk(b64) ==
  IF b64 = <<>> THEN <<>>
  ELSE IF Len(b64) <= ChunkLen THEN b64 \o <<Newline>>
  ELSE SubSeq(b64, 1, ChunkLen) \o <<Newline>> \o HostChunk(SubSeq(b64, ChunkLen + 1, Len(b64)))


\* ------------------------------------------------------- Retry-After header
\* A header value is a sequence of characters; NoHeader is headers.get()
\* returning null.
HdrChars == {"0", "2", "-", " ", "x"}
NoHeader == <<"null">>
HdrValues == UNION {[1..n -> HdrChars] : n \in 0..MaxHdrLen}
Headers == HdrValues \cup {NoHeader}

DigitVal(ch) ==
  CASE ch = "0" -> 0 [] ch = "1" -> 1 [] ch = "2" -> 2 [] ch = "3" -> 3 [] ch = "4" -> 4
    [] ch = "5" -> 5 [] ch = "6" -> 6 [] ch = "7" -> 7 [] ch = "8" -> 8 [] ch = "9" -> 9
    [] OTHER -> -1

RECURSIVE SkipSpaces(_)
SkipSpaces(str) ==
  IF str # <<>> /\ Head(str) = " " THEN SkipSpaces(Tail(str)) ELSE str

RECURSIVE DigitsValue(_, _)
DigitsValue(str, acc) ==
  IF str = <<>> \/ DigitVal(Head(str)) < 0 THEN acc
  ELSE DigitsValue(Tail(str), acc * 10 + DigitVal(Head(str)))

\* parseInt(str, 10): leading whitespace, an optional sign, then the longest
\* run of decimal digits; NaN when there is no digit.
parseInt(str) ==
  LET t == SkipSpaces(str)
      neg == t # <<>> /\ Head(t) = "-"
      u == IF t # <<>> /\ Head(t) \in {"-", "+"} THEN Tail(t) ELSE t
  IN IF u = <<>> \/ DigitVal(Head(u)) < 0
     THEN [nan |-> TRUE, val |-> 0]
     ELSE [nan |-> FALSE, val |-> IF neg THEN 0 - DigitsValue(u, 0) ELSE DigitsValue(u, 0)]

\* res.headers.get('retry-after') || '0'
HeaderOrZero(h) == IF h = NoHeader \/ h = <<>> THEN <<"0">> ELSE h

RetryDelayIgnoresHeader(h) == DefaultDelayMs

\* const delay = Number.isFinite(retryAfter) && retryAfter > 0 ? retryAfter * 1000 : 1000
RetryDelay(h) ==
  LET retryAfter == parseInt(HeaderOrZero(h))
  IN IF ~retryAfter.nan /\ retryAfter.val > 0
     THEN retryAfter.val * MsPerSecond
     ELSE DefaultDelayMs

RetryStatus(st) == st = 429 \/ st = 403


\* ------------------------------------------------------------------- state
VARIABLES
  owner, repo, branch, path,   \* useEditorController: repository and file context
  content, sha,                \* the text buffer and the held version token
  openState, saveState,        \* LoadState of Open and of Save
  status,                      \* the status line, by message
  hasToken,                    \* sessionStorage holds gh_access_token
  confirmSaveOpen,             \* App: the commit dialog is open
  remote,                      \* the host: file -> text, or NoFile
  calls,                       \* the requests of this page, by issue order
  shaOf,                       \* history: the file the held token was obtained for
  sinceOpen,                   \* history: the token of an Open that has just succeeded
  root,                        \* FileTree: the cached tree
  filter,                      \* FileTree: the text of the filter field
  listings,                    \* FileTree: the listDirectory calls that are pending
  listed,                      \* history: listDirectory calls per node in this context
  failedDirs,                  \* history: the directories of 'Failed to load directory' in this context
  page, limit,                 \* listEditableRepos: the page the host returns, the argument
  editable,                    \* listEditableRepos: the outcome
  asked, dirEntries,           \* listDirectory: the directory request, the outcome
  commitMsg,                   \* useEditorController: the text of the commit message field
  sent,                        \* history: the commit message of the last write request of onSave
  recent,                      \* localStorage recent_files_v1: the list of recent files
  userState,                   \* useEditorController: LoadState of the identity check
  asking,                      \* refreshUser: the request it is waiting for
  logMeta,                     \* server: the metadata object a caller hands to the logger
  stdout,                      \* server: the lines written to process.stdout
  jar,                         \* browser: the oauth_state cookie it holds
  cb,                          \* server: the callback request being handled
  contacted,                   \* server: the codes posted to the token endpoint for it
  reply,                       \* server: the response to the callback request
  hist, at,                    \* browser: the session history of the page (its URLs), the active entry
  pendingOpenPath,             \* App: pendingOpenPathRef.current, "" for null
  isRestoringFromHistory,      \* App: isRestoringFromHistoryRef.current
  committed,                   \* App: the dependencies of the effects at the last commit, <<>> before the mount
  restoredFor                  \* history: the file of the last restore that set the pending path, the Opens issued for it

vars == <<owner, repo, branch, path, content, sha, openState, saveState, status,
          hasToken, confirmSaveOpen, remote, calls, shaOf, sinceOpen,
          root, filter, listings, listed, failedDirs, page, limit, editable, asked, dirEntries, commitMsg, sent, recent, userState, asking, logMeta, stdout, jar, cb, contacted, reply, hist, at, pendingOpenPath, isRestoringFromHistory, committed, restoredFor>>

treeVars == <<root, filter, listings, listed, failedDirs>>
repoVars == <<page, limit, editable>>
dirVars == <<asked, dirEntries>>
msgVars == <<commitMsg, sent>>
recentVars == <<recent>>
userVars == <<userState, asking>>
logVars == <<logMeta, stdout>>
authVars == <<jar, cb, contacted, reply>>
navVars == <<hist, at, pendingOpenPath, isRestoringFromHistory, committed, restoredFor>>
libVars == <<repoVars, dirVars, msgVars, recentVars, userVars, logVars, authVars, navVars>>

\* the state of the components beside the editing session
aside == <<treeVars, libVars>>

session == <<owner, repo, branch, path, content, sha, openState, saveState, status,
             hasToken, confirmSaveOpen, shaOf, sinceOpen>>

\* ---------------------------------------------------------------- file tree
\* FileTree.tsx.  A node is a record with the fields name, path, type,
\* expanded, loaded and, when set, children.  A name is a sequence of
\* characters; a path is compared only and is a string.
Uppers == <<"A", "B", "D">>
Lowers == <<"a", "b", "d">>
IsUpper(ch) == \E k \in DOMAIN Uppers : Uppers[k] = ch
toLowerCaseChar(ch) ==
  IF IsUpper(ch) THEN Lowers[CHOOSE k \in DOMAIN Uppers : Uppers[k] = ch] ELSE ch
RECURSIVE toLowerCase(_)
toLowerCase(s) ==
  IF s = <<>> THEN <<>> ELSE <<toLowerCaseChar(Head(s))>> \o toLowerCase(Tail(s))

\* String.prototype.includes
includes(s, q) == \E i \in 0..(Len(s) - Len(q)) : SubSeq(s, i + 1, i + Len(q)) = q

\* String.prototype.trim
RECURSIVE trimStart(_)
trimStart(s) == IF s # <<>> /\ Head(s) = " " THEN trimStart(Tail(s)) ELSE s
RECURSIVE trimEnd(_)
trimEnd(s) == IF s # <<>> /\ s[Len(s)] = " " THEN trimEnd(SubSeq(s, 1, Len(s) - 1)) ELSE s
trim(s) == trimEnd(trimStart(s))

\* String.prototype.localeCompare in the default collation: the letters in
\* alphabetical order whatever their case, a shorter string before its
\* extensions, and between strings equal up to case the lower-case letter first.
Collation == <<".", "a", "b", "d", "l", "s", "x", "z">>
Primary(ch) == CHOOSE k \in DOMAIN Collation : Collation[k] = toLowerCaseChar(ch)
RECURSIVE PrimaryCompare(_, _)
PrimaryCompare(a, b) ==
  IF a = <<>> THEN (IF b = <<>> THEN 0 ELSE -1)
  ELSE IF b = <<>> THEN 1
  ELSE IF Primary(Head(a)) < Primary(Head(b)) THEN -1
  ELSE IF Primary(Head(a)) > Primary(Head(b)) THEN 1
  ELSE PrimaryCompare(Tail(a), Tail(b))
RECURSIVE CaseCompare(_, _)
CaseCompare(a, b) ==
  IF a = <<>> \/ b = <<>> THEN 0
  ELSE IF IsUpper(Head(a)) = IsUpper(Head(b)) THEN CaseCompare(Tail(a), Tail(b))
  ELSE IF IsUpper(Head(b)) THEN -1 ELSE 1
localeCompare(a, b) ==
  LET p == PrimaryCompare(a, b) IN IF p # 0 THEN p ELSE CaseCompare(a, b)

\* the initial and the reset value of the root state
FreshRoot == [name |-> <<"/">>, path |-> "", type |-> "dir", expanded |-> TRUE, loaded |-> FALSE]

\* `node.children` is set
HasChildren(node) == "children" \in DOMAIN node
ChildrenOrNone(node) == IF HasChildren(node) THEN node.children ELSE <<>>

\* `{ ...node, children }`
WithChildren(node, children) ==
  IF HasChildren(node) THEN [node EXCEPT !.children = children]
  ELSE [name |-> node.name, path |-> node.path, type |-> node.type,
        expanded |-> node.expanded, loaded |-> node.loaded, children |-> children]

MergeNothing(node, patch) == node

\* `{ ...node, ...patch }` for a patch that has some of the fields children,
\* loaded and expanded
Merge(node, patch) ==
  LET a == IF "children" \in DOMAIN patch THEN WithChildren(node, patch.children) ELSE node
      b == IF "loaded" \in DOMAIN patch THEN [a EXCEPT !.loaded = patch.loaded] ELSE a
  IN IF "expanded" \in DOMAIN patch THEN [b EXCEPT !.expanded = patch.expanded] ELSE b

\* Objects.  The functions of FileTree.tsx build and change objects, and
\* which object a variable refers to matters to them; they are computed on a
\* heap, a sequence of objects in which a node's children are references
\* (indices).  An object literal or a spread allocates a new object.
Alloc(h, obj) == [heap |-> Append(h, obj), ref |-> Len(h) + 1]

\* the objects of the tree value t, allocated in h: [heap, ref of t's root]
RECURSIVE Load(_, _), LoadAll(_, _, _)
Load(h, t) ==
  IF ~HasChildren(t) THEN Alloc(h, t)
  ELSE LET cs == LoadAll(h, t.children, <<>>)
       IN Alloc(cs.heap, [t EXCEPT !.children = cs.refs])
LoadAll(h, ts, refs) ==
  IF ts = <<>> THEN [heap |-> h, refs |-> refs]
  ELSE LET c == Load(h, Head(ts))
       IN LoadAll(c.heap, Tail(ts), Append(refs, c.ref))

\* the tree value that is reached from ref in h
RECURSIVE View(_, _), ViewAll(_, _)
View(h, ref) ==
  IF HasChildren(h[ref])
  THEN [h[ref] EXCEPT !.children = ViewAll(h, h[ref].children)]
  ELSE h[ref]
ViewAll(h, refs) ==
  IF refs = <<>> THEN <<>> ELSE <<View(h, Head(refs))>> \o ViewAll(h, Tail(refs))

\* the objects that are reached from ref in h
RECURSIVE Reached(_, _)
Reached(h, ref) ==
  {ref} \cup UNION {Reached(h, h[ref].children[i]) : i \in 1..Len(ChildrenOrNone(h[ref]))}

\* applyUpdate(root, targetPath, patch): [heap, ref of the result]
RECURSIVE applyUpdate(_, _, _, _), applyUpdateAll(_, _, _, _, _)
applyUpdate(h, ref, targetPath, patch) ==
  IF h[ref].path = targetPath THEN Alloc(h, Merge(h[ref], patch))
  ELSE IF ~HasChildren(h[ref]) THEN [heap |-> h, ref |-> ref]
  ELSE LET cs == applyUpdateAll(h, h[ref].children, targetPath, patch, <<>>)
       IN Alloc(cs.heap, Merge(h[ref], [children |-> cs.refs]))
applyUpdateAll(h, refs, targetPath, patch, done) ==
  IF refs = <<>> THEN [heap |-> h, refs |-> done]
  ELSE LET c == applyUpdate(h, Head(refs), targetPath, patch)
       IN applyUpdateAll(c.heap, Tail(refs), targetPath, patch, Append(done, c.ref))

\* findNode(root, targetPath) on a tree value: <<node>>, or <<>> for undefined
RECURSIVE findNode(_, _), findAmong(_, _)
findNode(node, targetPath) ==
  IF node.path = targetPath THEN <<node>>
  ELSE findAmong(ChildrenOrNone(node), targetPath)
findAmong(nodes, targetPath) ==
  IF nodes = <<>> THEN <<>>
  ELSE LET f == findNode(Head(nodes), targetPath)
       IN IF f # <<>> THEN f ELSE findAmong(Tail(nodes), targetPath)

cloneTreeShallow(h, ref) == Alloc(h, h[ref])

\* cloneTree(node): [heap, ref of the copy]
RECURSIVE cloneTree(_, _), cloneAll(_, _, _)
cloneTree(h, ref) ==
  IF ~HasChildren(h[ref]) THEN Alloc(h, h[ref])
  ELSE LET cs == cloneAll(h, h[ref].children, <<>>)
       IN Alloc(cs.heap, Merge(h[ref], [children |-> cs.refs]))
cloneAll(h, refs, done) ==
  IF refs = <<>> THEN [heap |-> h, refs |-> done]
  ELSE LET c == cloneTree(h, Head(refs))
       IN cloneAll(c.heap, Tail(refs), Append(done, c.ref))

NameMatchesCase(node, q) == includes(node.name, q)

\* `node.name.toLowerCase().includes(q)`
NameMatches(node, q) == includes(toLowerCase(node.name), q)

FlippedExpanded(node) == ~node.expanded

\* `node.expanded = true`
FilteredExpanded(node) == TRUE

\* filterTreeInPlace(node, q): [heap after the call, match (the value returned)]
RECURSIVE filterTreeInPlace(_, _, _), filterChildren(_, _, _, _)
filterTreeInPlace(h, ref, q) ==
  IF h[ref].type = "file" THEN [heap |-> h, match |-> NameMatches(h[ref], q)]
  ELSE LET k == filterChildren(h, ChildrenOrNone(h[ref]), q, <<>>)
       IN [heap |-> [k.heap EXCEPT ![ref] =
                       Merge(k.heap[ref], [children |-> k.kept,
                                           expanded |-> FilteredExpanded(k.heap[ref])])],
           match |-> Len(k.kept) > 0]
filterChildren(h, refs, q, kept) ==
  IF refs = <<>> THEN [heap |-> h, kept |-> kept]
  ELSE LET r == filterTreeInPlace(h, Head(refs), q)
           match == r.match \/ NameMatches(r.heap[Head(refs)], q)
       IN filterChildren(r.heap, Tail(refs), q,
                         IF match THEN Append(kept, Head(refs)) ELSE kept)

\* the useMemo of visibleTree, on the cached tree value t with the filter
\* text f: the heap after it, the cached root and the root shown
Filtering(t, f) ==
  LET q == toLowerCase(trim(f))
      h0 == Load(<<>>, t)
  IN IF q = <<>> THEN [heap |-> h0.heap, cached |-> h0.ref, shown |-> h0.ref]
     ELSE LET c == cloneTree(h0.heap, h0.ref)
          IN [heap |-> filterTreeInPlace(c.heap, c.ref, q).heap,
              cached |-> h0.ref, shown |-> c.ref]
VisibleTree(t, f) ==
  IF toLowerCase(trim(f)) = <<>> THEN t
  ELSE LET v == Filtering(t, f) IN View(v.heap, v.shown)
visibleTree == VisibleTree(root, filter)

ListableAny(e) == TRUE

\* loadChildren: the children made from the entries listed
Listable(e) == e.type = "dir" \/ e.type = "file"
compareEntries(a, b) ==
  IF a.type # b.type THEN (IF a.type = "dir" THEN -1 ELSE 1)
  ELSE localeCompare(a.name, b.name)
\* Array.prototype.sort, which is stable
RECURSIVE Insert(_, _)
Insert(sorted, e) ==
  IF sorted = <<>> THEN <<e>>
  ELSE IF compareEntries(e, Head(sorted)) < 0 THEN <<e>> \o sorted
  ELSE <<Head(sorted)>> \o Insert(Tail(sorted), e)
RECURSIVE Sort(_)
Sort(es) == IF es = <<>> THEN <<>> ELSE Insert(Sort(SubSeq(es, 1, Len(es) - 1)), es[Len(es)])
ChildNode(e) == [name |-> e.name, path |-> e.path, type |-> e.type,
                 expanded |-> FALSE, loaded |-> FALSE]
RECURSIVE ChildNodes(_)
ChildNodes(es) == IF es = <<>> THEN <<>> ELSE <<ChildNode(Head(es))>> \o ChildNodes(Tail(es))
ChildrenOf(entries) == ChildNodes(Sort(SelectSeq(entries, Listable)))

\* `setRoot((prev) => applyUpdate(prev, targetPath, patch))` where the patch
\* gives the new child nodes kids (<<>> with set = FALSE: no children in the
\* patch) and the other fields rest: the new tree value, and whether the
\* state is another object than before
SetRoot(t, targetPath, set, kids, rest) ==
  LET h0 == Load(<<>>, t)
      ks == LoadAll(h0.heap, kids, <<>>)
      patch == IF set THEN [children |-> ks.refs, loaded |-> rest.loaded] ELSE rest
      r == applyUpdate(ks.heap, h0.ref, targetPath, patch)
  IN [root |-> View(r.heap, r.ref), changed |-> r.ref # h0.ref]

\* the host's directories: what GET /repos/{owner}/{repo}/contents/{path}
\* answers, in the host's order, for the repositories o1/r1 and o1/r2
Entry(name, p, type) == [name |-> name, path |-> p, type |-> type]
DirPaths == {"", "sd", "D", "sd/Ab"}
TreeContexts == {<<"o1", "r1", "main">>, <<"o1", "r2", "main">>}
HostDirectories ==
  [ctx \in TreeContexts |-> [p \in DirPaths |->
     IF ctx[2] = "r1"
     THEN CASE p = "" -> <<Entry(<<"B">>, "B", "file"), Entry(<<"s", "d">>, "sd", "dir"),
                            Entry(<<"l">>, "l", "symlink"), Entry(<<"D">>, "D", "dir"),
                            Entry(<<"a">>, "a", "file")>>
            [] p = "sd" -> <<Entry(<<"x">>, "sd/x", "file"), Entry(<<"A", "b">>, "sd/Ab", "dir")>>
            [] p = "D" -> <<Entry(<<"d", "a">>, "D/da", "file")>>
            [] p = "sd/Ab" -> <<Entry(<<"z">>, "sd/Ab/z", "file")>>
     ELSE IF p = "" THEN <<Entry(<<"z">>, "z", "file")>> ELSE <<>>]]
HasDirectory(ctx, p) == ctx \in TreeContexts /\ p \in DirPaths /\ (ctx[2] = "r1" \/ p = "")

\* FileTree as it is constructed
TreeInit ==
  /\ root = FreshRoot
  /\ filter = <<>>
  /\ listings = <<>>
  /\ listed = [p \in DirPaths |-> 0]
  /\ failedDirs = {}

\* no repository list has been asked for
NotAsked == [outcome |-> "none"]
RepoInit ==
  /\ page = <<>>
  /\ limit = 0
  /\ editable = NotAsked

\* no directory has been asked for
NoRequest == [ctx |-> <<"", "", "">>, path |-> ""]
DirInit ==
  /\ asked = NoRequest
  /\ dirEntries = NotAsked

\* the commit message field is empty and no Save has been made
NothingSent == <<"(none)">>
MsgInit ==
  /\ commitMsg = <<>>
  /\ sent = NothingSent

\* nothing is stored under recent_files_v1
RecentInit == recent = <<>>

\* the identity check has not started
UserInit == userState = "idle" /\ asking = "none"

\* nothing to log, nothing written
NoMeta == [heap |-> <<>>, root |-> [t |-> "undefined"], production |-> FALSE]
LogInit == logMeta = NoMeta /\ stdout = <<>>

\* no callback request has arrived
NoCallback == [phase |-> "none"]
NoReply == [status |-> 0]
AuthInit == jar = [t |-> "undefined"] /\ cb = NoCallback /\ contacted = <<>> /\ reply = NoReply

\* a page without a query, and no restore yet
Url(o, r, b, p, h) == [owner |-> o, repo |-> r, branch |-> b, path |-> p, hash |-> h]
NoRestore == [key |-> <<"", "", "", "">>, opens |-> 0]
NavInit ==
  /\ hist = <<Url("", "", "", "", "")>> /\ at = 1
  /\ pendingOpenPath = "" /\ isRestoringFromHistory = FALSE
  /\ committed = <<>> /\ restoredFor = NoRestore

AsideInit == TreeInit /\ RepoInit /\ DirInit /\ MsgInit /\ RecentInit /\ UserInit /\ LogInit /\ AuthInit /\ NavInit

\* ------------------------------------------------------------ input values
Owners == {"o1"}
Repos == {"r1"}
Branches == {"main"}
Paths == {"README.md", "a.md"}
TextList == << <<>>, <<233, 10>> >>
Texts == {TextList[i] : i \in 1..Len(TextList)}

\* `branch.trim() || 'main'`
BranchOrMain(b) == IF b = "" THEN "main" ELSE b

\* The file a request addresses: /repos/{owner}/{repo}/contents/{path}, ref or
\* body field branch.
FileKey(o, r, b, p) == <<o, r, b, p>>
NoKey == <<"", "", "", "">>

\* ------------------------------------------------------------------ host
\* The host serves the repositories of HostedRepos; a version token is the
\* content hash of the file's text.
HostedRepos == {<<"o1", "r1">>}
HostedFiles == {FileKey(h[1], h[2], b, p) : h \in HostedRepos, b \in Branches, p \in Paths}
ContendedFiles == {f \in HostedFiles : f[4] = "a.md"}
NoFile == <<-2>>
BlobSha(text) ==
  IF \E i \in 1..Len(TextList) : TextList[i] = text
  THEN CHOOSE i \in 1..Len(TextList) : TextList[i] = text
  ELSE Len(TextList) + 1
HostSha(f) == IF f \in HostedFiles /\ remote[f] # NoFile THEN BlobSha(remote[f]) ELSE Null
Garbled == <<0>>
FailureStatuses == {403, 404, 409, 422, 429, 500}
NoResp == [status |-> 0, sha |-> Null, content |-> <<>>]
Ok(st) == st >= 200 /\ st <= 299

\* ------------------------------------------------------------------- calls
NoCall == [kind |-> "none"]
Done == [kind |-> "done"]
Slots == 1..MaxCalls
Live(i) == calls[i].kind \notin {"none", "done"}
FreeSlot == IF \E i \in Slots : calls[i] = NoCall
            THEN CHOOSE i \in Slots : calls[i] = NoCall /\ \A j \in 1..(i - 1) : calls[j] # NoCall
            ELSE 0

\* githubFetch -> fetchWithRetry(url, {..., retries: 1}): the first attempt.
NewCall(from, kind, o, r, b, p, s, body) ==
  [from |-> from, kind |-> kind, file |-> FileKey(o, r, BranchOrMain(b), p), sha |-> s, body |-> body,
   retries |-> DefaultRetries, retries0 |-> DefaultRetries, attempts |-> 1,
   phase |-> "fetch", result |-> 0, hdr |-> NoHeader, remaining |-> 0, waited |-> 0,
   held |-> IF from \in {"onOpen", "onSave"} THEN sha ELSE Null,
   wasLoaded |-> from = "onOpen" /\ openState = "loaded",
   shaOf |-> IF from \in {"onSave", "onDelete"} THEN shaOf ELSE NoKey,
   afterOpen |-> IF from = "onSave" THEN sinceOpen ELSE Null]

\* send(url, requestSpec, {retries}) called directly, as fetchWithRetry allows
SendCall(retries) ==
  [from |-> "send", kind |-> "send", file |-> NoKey, sha |-> Null, body |-> <<>>,
   retries |-> retries, retries0 |-> retries, attempts |-> 1,
   phase |-> "fetch", result |-> 0, hdr |-> NoHeader, remaining |-> 0, waited |-> 0,
   held |-> Null, wasLoaded |-> FALSE, shaOf |-> NoKey, afterOpen |-> Null]

Truthy(s) == s # Null /\ s # EmptySha

Init ==
  /\ owner = "" /\ repo = "" /\ branch = "main" /\ path = ""
  /\ content = <<>> /\ sha = Null
  /\ openState = "idle" /\ saveState = "idle" /\ status = <<>>
  /\ hasToken = TRUE
  /\ confirmSaveOpen = FALSE
  /\ remote = [f \in HostedFiles |-> IF f \in ContendedFiles THEN TextList[2] ELSE <<>>]
  /\ calls = [i \in Slots |-> NoCall]
  /\ shaOf = NoKey
  /\ sinceOpen = Null
  /\ AsideInit


\* ---------------------------------------------------------------- App effect
\* App.tsx useEffect([owner, repo, branch]): a change of the context closes the
\* commit dialog.
CloseOnContextChange(o, r, b) ==
  confirmSaveOpen' = IF <<o, r, b>> # <<owner, repo, branch>>
                     THEN FALSE ELSE confirmSaveOpen

\* --------------------------------------------------------------------- Open
\* onOpen(overridePath) as called from a handler whose render saw owner o,
\* repo r, branch b; p is overridePath || path.  It writes openState, status,
\* sha and issues the read; the caller states the other variables.
OnOpen(o, r, b, p) ==
  IF o = "" \/ r = "" \/ p = ""
  THEN /\ status' = <<"Owner, repo, and path are required">>
       /\ UNCHANGED <<openState, sha, shaOf, calls>>
  ELSE /\ sha' = Null
       /\ shaOf' = NoKey
       /\ IF ~hasToken
          THEN \* githubFetch throws before any request
               /\ openState' = "error"
               /\ status' = <<"Open failed", "Missing access token">>
               /\ UNCHANGED calls
          ELSE /\ FreeSlot # 0
               /\ openState' = "loading"
               /\ status' = <<"Opening file...">>
               /\ calls' = [calls EXCEPT ![FreeSlot] =
                              NewCall("onOpen", "getFile", o, r, b, p, Null, <<>>)]

\* SettingsDrawer "Open file" (enabled when user, owner, repo and path are set)
OnOpenFileSettings ==
  /\ hasToken /\ owner # "" /\ repo # "" /\ path # ""
  /\ OnOpen(owner, repo, branch, path)
  /\ sinceOpen' = Null
  /\ UNCHANGED <<owner, repo, branch, path, content, saveState, hasToken,
                 confirmSaveOpen, remote>>

\* FileTree onSelectFile: setPath(p); onOpen(p)
OnSelectFile(p) ==
  /\ owner # "" /\ repo # "" /\ ~confirmSaveOpen
  /\ path' = p
  /\ OnOpen(owner, repo, branch, p)
  /\ sinceOpen' = Null
  /\ UNCHANGED <<owner, repo, branch, content, saveState, hasToken,
                 confirmSaveOpen, remote>>

\* CommandPalette onOpenPath: setPath(p); onOpen(p)
OnOpenPath(p) ==
  /\ path' = p
  /\ OnOpen(owner, repo, branch, p)
  /\ sinceOpen' = Null
  /\ UNCHANGED <<owner, repo, branch, content, saveState, hasToken,
                 confirmSaveOpen, remote>>

\* CommandPalette onOpenFile: the context is set to the entry's, and onOpen of
\* the current render (its owner, repo and branch) is called with the entry's path.
OnOpenFile(f) ==
  /\ owner' = f[1] /\ repo' = f[2] /\ branch' = f[3] /\ path' = f[4]
  /\ OnOpen(owner, repo, branch, f[4])
  /\ sinceOpen' = Null
  /\ CloseOnContextChange(f[1], f[2], f[3])
  /\ UNCHANGED <<content, saveState, hasToken, remote>>

\* CommandPalette onOpenRepo
OnOpenRepo(o, r) ==
  /\ owner' = o /\ repo' = r /\ branch' = "main" /\ path' = "README.md"
  /\ sinceOpen' = Null
  /\ CloseOnContextChange(o, r, "main")
  /\ UNCHANGED <<content, sha, shaOf, openState, saveState, status, hasToken,
                 remote, calls>>

\* RepoPicker onSelectRepo (shown when a user is logged in)
OnSelectRepo(o, r) ==
  /\ hasToken /\ ~confirmSaveOpen
  /\ owner' = o /\ repo' = r /\ branch' = "main"
  /\ status' = <<"Selected">>
  /\ openState' = "loaded"
  /\ path' = ""
  /\ content' = <<>>
  /\ sha' = EmptySha
  /\ shaOf' = NoKey
  /\ sinceOpen' = Null
  /\ CloseOnContextChange(o, r, "main")
  /\ UNCHANGED <<saveState, hasToken, remote, calls>>

\* SettingsDrawer text fields
SetOwner(v) ==
  /\ owner # v
  /\ owner' = v
  /\ sinceOpen' = Null
  /\ CloseOnContextChange(v, repo, branch)
  /\ UNCHANGED <<repo, branch, path, content, sha, shaOf, openState, saveState,
                 status, hasToken, remote, calls>>

SetRepo(v) ==
  /\ repo # v
  /\ repo' = v
  /\ sinceOpen' = Null
  /\ CloseOnContextChange(owner, v, branch)
  /\ UNCHANGED <<owner, branch, path, content, sha, shaOf, openState, saveState,
                 status, hasToken, remote, calls>>

SetPath(v) ==
  /\ path # v
  /\ path' = v
  /\ sinceOpen' = Null
  /\ UNCHANGED <<owner, repo, branch, content, sha, shaOf, openState, saveState,
                 status, hasToken, confirmSaveOpen, remote, calls>>

\* EditorPanel onChange (the editor is shown when openState is loaded)
SetContent(t) ==
  /\ owner # "" /\ repo # "" /\ openState = "loaded" /\ ~confirmSaveOpen
  /\ content # t
  /\ content' = t
  /\ sinceOpen' = Null
  /\ UNCHANGED <<owner, repo, branch, path, sha, shaOf, openState, saveState,
                 status, hasToken, confirmSaveOpen, remote, calls>>


\* --------------------------------------------------------------------- Save
\* App openConfirmSave (Ctrl+S, or the editor's Save button)
OpenConfirmSave ==
  /\ openState = "loaded" /\ Truthy(sha)
  /\ confirmSaveOpen' = TRUE
  /\ UNCHANGED <<owner, repo, branch, path, content, sha, shaOf, openState, saveState,
                 status, hasToken, remote, calls, sinceOpen>>

\* ConfirmSaveModal onClose
CloseConfirmSave ==
  /\ confirmSaveOpen
  /\ confirmSaveOpen' = FALSE
  /\ sinceOpen' = Null
  /\ UNCHANGED <<owner, repo, branch, path, content, sha, shaOf, openState, saveState,
                 status, hasToken, remote, calls>>

UseCreateNullOnly(s) == s = Null

\* `if (!sha)`: the create request is chosen when the held token is null or ''
UseCreate(s) == ~Truthy(s)

\* the sha argument of putFile
SaveSha(s) == s

\* onSave: writes saveState and status and issues the write
OnSave ==
  IF owner = "" \/ repo = "" \/ path = ""
  THEN /\ status' = <<"Owner, repo, and path are required">>
       /\ UNCHANGED <<saveState, calls>>
  ELSE IF ~hasToken
       THEN /\ saveState' = "error"
            /\ status' = <<"Save failed", "Missing access token">>
            /\ UNCHANGED calls
       ELSE /\ FreeSlot # 0
            /\ saveState' = "loading"
            /\ status' = <<"Saving...">>
            /\ calls' = [calls EXCEPT ![FreeSlot] =
                 IF UseCreate(sha)
                 THEN NewCall("onSave", "createFile", owner, repo, branch, path, Null,
                              toBase64Unicode(content))
                 ELSE NewCall("onSave", "putFile", owner, repo, branch, path, SaveSha(sha),
                              toBase64Unicode(content))]

\* ConfirmSaveModal onConfirm (Commit, or Enter): onSave(commitMsg), then close
ConfirmSave ==
  /\ confirmSaveOpen
  /\ OnSave
  /\ confirmSaveOpen' = FALSE
  /\ sinceOpen' = Null
  /\ UNCHANGED <<owner, repo, branch, path, content, sha, shaOf, openState,
                 hasToken, remote>>

\* ------------------------------------------------------------ create, delete
\* CreateFileModal onCreate with newPath.trim() = p (the dialog is opened from
\* the file tree)
OnCreate(p) ==
  /\ owner # "" /\ repo # "" /\ ~confirmSaveOpen
  /\ IF ~hasToken
     THEN UNCHANGED calls
     ELSE /\ FreeSlot # 0
          /\ calls' = [calls EXCEPT ![FreeSlot] =
               NewCall("onCreate", "createFile", owner, repo, branch, p, Null,
                       toBase64Unicode(<<>>))]
  /\ sinceOpen' = Null
  /\ UNCHANGED <<owner, repo, branch, path, content, sha, shaOf, openState, saveState,
                 status, hasToken, confirmSaveOpen, remote>>

\* DeleteFileModal onConfirm with deleteTarget = p, a file of the tree
OnDelete(p) ==
  /\ owner # "" /\ repo # "" /\ ~confirmSaveOpen /\ Truthy(sha)
  /\ IF ~hasToken
     THEN UNCHANGED calls
     ELSE /\ FreeSlot # 0
          /\ calls' = [calls EXCEPT ![FreeSlot] =
               NewCall("onDelete", "deleteFile", owner, repo, branch, p, sha, <<>>)]
  /\ sinceOpen' = Null
  /\ UNCHANGED <<owner, repo, branch, path, content, sha, shaOf, openState, saveState,
                 status, hasToken, confirmSaveOpen, remote>>

\* ------------------------------------------------------------------- logout
OnLogout ==
  /\ hasToken' = FALSE
  /\ content' = <<>>
  /\ sha' = Null
  /\ shaOf' = NoKey
  /\ status' = <<"Logged out">>
  /\ openState' = "idle"
  /\ path' = ""
  /\ sinceOpen' = Null
  /\ UNCHANGED <<owner, repo, branch, saveState, confirmSaveOpen, remote, calls>>


\* ------------------------------------------------------------ continuations
\* A finished request is res = [kind, status, data]: "ok" is a 2xx response with
\* its JSON body, "http" the HttpError that errorFromResponse builds from any
\* other response, "throw" the AbortError of an aborted fetch.
OkRes(resp) == [kind |-> "ok", status |-> resp.status, data |-> resp]
HttpRes(resp) == [kind |-> "http", status |-> resp.status, data |-> resp]
ThrowRes == [kind |-> "throw", status |-> 0, data |-> NoResp]

\* err.message as the status line shows it after "Open failed: " or "Save failed: "
\* (an HttpError's message is its status code and text)
ErrMessage(res) ==
  CASE res.kind = "http" -> "HTTP error"
    [] res.kind = "throw" -> "The user aborted a request."
    [] res.kind = "ok" /\ res.data.content = <<>> -> "No content returned"
    [] OTHER -> "malformed"

\* the status line's messages
NotFoundText == <<"File not found or insufficient permissions">>
ForbiddenText == <<"Forbidden or rate limited. Try again later.">>
ConflictText == <<"Conflict: file changed upstream. Re-open to refresh before saving.">>
AbortedText(op) == <<op, "The user aborted a request.">>

OpenErrorStatusText(res) ==
  IF res.kind = "http" /\ res.status = 404 THEN NotFoundText
  ELSE IF res.kind = "http" /\ res.status = 403 THEN ForbiddenText
  ELSE <<"Open failed", ErrMessage(res)>>

\* onOpen after `await getFile(...)`
OpenReturn(c, res) ==
  IF res.kind = "ok" /\ res.data.content # <<>>
  THEN LET text == fromBase64Unicode(StripNewlines(res.data.content))
       IN /\ sha' = res.data.sha
          /\ shaOf' = c.file
          /\ IF text = Fail
             THEN \* the decoding throws after setSha
                  /\ openState' = "error"
                  /\ status' = <<"Open failed", ErrMessage(res)>>
                  /\ sinceOpen' = Null
                  /\ UNCHANGED content
             ELSE /\ content' = text
                  /\ openState' = "loaded"
                  /\ status' = <<"Opened">>
                  /\ sinceOpen' = res.data.sha
          /\ UNCHANGED <<owner, repo, branch, path, saveState, hasToken, confirmSaveOpen>>
  ELSE /\ openState' = "error"
       /\ status' = OpenErrorStatusText(res)
       /\ sinceOpen' = Null
       /\ UNCHANGED <<owner, repo, branch, path, content, sha, shaOf, saveState, hasToken,
                      confirmSaveOpen>>

SavedShaKept(data) == sha

\* `data?.content?.sha ?? null`
SavedSha(data) == data.sha

ShaAfterSaveErrorCleared(s) == Null

\* the catch block of onSave makes no call of setSha
ShaAfterSaveError(s) == s

SaveErrorStatusText(res) ==
  IF res.kind = "http" /\ res.status = 409 THEN ConflictText
  ELSE IF res.kind = "http" /\ res.status = 403 THEN ForbiddenText
  ELSE <<"Save failed", ErrMessage(res)>>

ContentOfRequest(text, c) == fromBase64Unicode(c.body)

\* onSave after the await makes no call of setContent
ContentAfterSave(text, c) == text

\* onSave after `await putFile(...)` or `await createFile(...)`
SaveReturn(c, res) ==
  /\ IF res.kind = "ok"
     THEN /\ sha' = SavedSha(res.data)
          /\ shaOf' = c.file
          /\ saveState' = "loaded"
          /\ status' = <<"Saved successfully.">>
     ELSE /\ sha' = ShaAfterSaveError(sha)
          /\ shaOf' = shaOf
          /\ saveState' = "error"
          /\ status' = SaveErrorStatusText(res)
  /\ sinceOpen' = Null
  /\ content' = ContentAfterSave(content, c)
  /\ UNCHANGED <<owner, repo, branch, path, openState, hasToken, confirmSaveOpen>>

\* CreateFileModal onCreate after `await createFile(...)`
CreateReturn(c, res) ==
  /\ IF res.kind = "ok"
     THEN /\ path' = c.file[4]
          /\ content' = <<>>
          /\ sha' = EmptySha
          /\ shaOf' = NoKey
     ELSE UNCHANGED <<path, content, sha, shaOf>>
  /\ sinceOpen' = Null
  /\ UNCHANGED <<owner, repo, branch, openState, saveState, status, hasToken, confirmSaveOpen>>

\* DeleteFileModal onConfirm after `await deleteFile(...)`
DeleteReturn(c, res) ==
  /\ IF res.kind = "ok"
     THEN /\ content' = <<>>
          /\ sha' = Null
          /\ shaOf' = NoKey
          /\ openState' = "idle"
     ELSE UNCHANGED <<content, sha, shaOf, openState>>
  /\ sinceOpen' = Null
  /\ UNCHANGED <<owner, repo, branch, path, saveState, status, hasToken, confirmSaveOpen>>

\* fetchWithRetry returns res (or throws) to its caller
Finish(i, res) ==
  LET c == calls[i]
  IN IF c.from = "send"
     THEN /\ calls' = [calls EXCEPT ![i] =
                         [c EXCEPT !.phase = IF res.kind = "throw" THEN "threw" ELSE "returned",
                                   !.result = res.status]]
          /\ UNCHANGED session
     ELSE /\ calls' = [calls EXCEPT ![i] = Done]
          /\ CASE c.from = "onOpen" -> OpenReturn(c, res)
               [] c.from = "onSave" -> SaveReturn(c, res)
               [] c.from = "onCreate" -> CreateReturn(c, res)
               [] c.from = "onDelete" -> DeleteReturn(c, res)


\* ------------------------------------------------------------------ the host
\* What the host answers to request c on the files as they now are, and the
\* files afterwards: <<response, remote'>>.
HostAnswers(c) ==
  LET f == c.file
      there == f \in HostedFiles /\ remote[f] # NoFile
      written == fromBase64Unicode(c.body)
  IN CASE c.kind = "getFile" ->
            IF there
            THEN {<<[status |-> 200, sha |-> BlobSha(remote[f]),
                     content |-> HostChunk(toBase64Unicode(remote[f]))], remote>>}
            ELSE {<<[NoResp EXCEPT !.status = 404], remote>>}
       [] c.kind = "putFile" ->
            IF there /\ c.sha = BlobSha(remote[f]) /\ written \in Texts
            THEN {<<[status |-> 200, sha |-> BlobSha(written), content |-> <<>>],
                    [remote EXCEPT ![f] = written]>>}
            ELSE {<<[NoResp EXCEPT !.status = 409], remote>>}
       [] c.kind = "createFile" ->
            IF f \in HostedFiles /\ ~there /\ written \in Texts
            THEN {<<[status |-> 201, sha |-> BlobSha(written), content |-> <<>>],
                    [remote EXCEPT ![f] = written]>>}
            ELSE {<<[NoResp EXCEPT !.status = IF there THEN 422 ELSE 404], remote>>}
       [] c.kind = "deleteFile" ->
            IF there /\ c.sha = BlobSha(remote[f])
            THEN {<<[status |-> 200, sha |-> Null, content |-> <<>>],
                    [remote EXCEPT ![f] = NoFile]>>}
            ELSE {<<[NoResp EXCEPT !.status = 409], remote>>}
       [] OTHER -> {<<[NoResp EXCEPT !.status = 200], remote>>}

\* Somebody else changes or removes a file
ExternalChange(f, t) ==
  /\ remote[f] # t
  /\ remote' = [remote EXCEPT ![f] = t]
  /\ UNCHANGED <<calls, session>>

\* ------------------------------------------------------------ fetchWithRetry
ShouldRetryAnyError(st, retries) == ~Ok(st) /\ retries > 0

\* `res.status === 429 || res.status === 403`, then `retries > 0`
ShouldRetry(st, retries) == RetryStatus(st) /\ retries > 0

\* `await fetch(...)` resolves with response resp, whose Retry-After header is h
FetchResolves(i, resp, h) ==
  LET c == calls[i]
  IN IF ShouldRetry(resp.status, c.retries)
     THEN /\ calls' = [calls EXCEPT ![i].phase = "wait", ![i].hdr = h,
                                    ![i].remaining = RetryDelay(h), ![i].waited = 0]
          /\ UNCHANGED session
     ELSE Finish(i, IF Ok(resp.status) THEN OkRes(resp) ELSE HttpRes(resp))

\* The host serves the request and the response arrives
HostServes(i) ==
  /\ Live(i) /\ calls[i].phase = "fetch"
  /\ \E a \in HostAnswers(calls[i]) :
       /\ remote' = a[2]
       /\ FetchResolves(i, a[1], NoHeader)

\* The host answers a read with a body that is not base64
HostGarbles(i) ==
  /\ Live(i) /\ calls[i].phase = "fetch" /\ calls[i].kind = "getFile"
  /\ HostSha(calls[i].file) # Null
  /\ FetchResolves(i, [status |-> 200, sha |-> HostSha(calls[i].file), content |-> Garbled],
                   NoHeader)
  /\ UNCHANGED remote

\* The host refuses the request (rate limit, permission, failure) and the
\* response arrives
HostRefuses(i, st, h) ==
  /\ Live(i) /\ calls[i].phase = "fetch"
  /\ FetchResolves(i, [NoResp EXCEPT !.status = st], h)
  /\ UNCHANGED remote

AbortRetries(c) == c.retries > 0

\* a rejected fetch is not caught: fetchWithRetry rethrows it
AbortIsRetried(c) == FALSE

\* the timer of `setTimeout(() => controller.abort(), timeoutMs)` fires while
\* the fetch is pending: the fetch rejects.  The host may have served the
\* request all the same.
TimeoutFires(i) ==
  /\ Live(i) /\ calls[i].phase = "fetch"
  /\ \E a \in HostAnswers(calls[i]) \cup {<<NoResp, remote>>} : remote' = a[2]
  /\ IF AbortIsRetried(calls[i])
     THEN /\ calls' = [calls EXCEPT ![i].retries = @ - 1, ![i].attempts = @ + 1]
          /\ UNCHANGED session
     ELSE Finish(i, ThrowRes)

\* time passes until the next retry timer is due
WaitElapses ==
  LET waiting == {i \in Slots : Live(i) /\ calls[i].phase = "wait"}
  IN /\ waiting # {}
     /\ \A i \in waiting : calls[i].remaining > 0
     /\ LET d == CHOOSE d \in {calls[i].remaining : i \in waiting} :
                   \A j \in waiting : d <= calls[j].remaining
        IN calls' = [i \in Slots |->
                       IF i \in waiting
                       THEN [calls[i] EXCEPT !.remaining = @ - d, !.waited = @ + d]
                       ELSE calls[i]]
     /\ UNCHANGED <<remote, session>>

\* the promise of the retry delay is never resolved
WaitedNever(c) == FALSE

\* `await new Promise((r) => setTimeout(r, delay))` has resolved
WaitedEnough(c) == c.remaining = 0

\* `return fetchWithRetry(url, { ...options, retries: retries - 1 })`
Retry(i) ==
  /\ Live(i) /\ calls[i].phase = "wait"
  /\ WaitedEnough(calls[i])
  /\ calls' = [calls EXCEPT ![i].phase = "fetch", ![i].retries = @ - 1,
                            ![i].attempts = @ + 1]
  /\ UNCHANGED <<remote, session>>

\* ------------------------------------------------------------ specification
SessionHeaders == {NoHeader}

\* the host and the transport under it
Network(hdrs) ==
  \/ \E i \in Slots : HostServes(i) /\ UNCHANGED aside
  \/ \E i \in Slots : HostGarbles(i) /\ UNCHANGED aside
  \/ \E i \in Slots, st \in FailureStatuses, h \in hdrs : HostRefuses(i, st, h) /\ UNCHANGED aside
  \/ \E i \in Slots : TimeoutFires(i) /\ UNCHANGED aside
  \/ WaitElapses /\ UNCHANGED aside
  \/ \E i \in Slots : Retry(i) /\ UNCHANGED aside

\* requests can still be issued or are still pending
Active == \E i \in Slots : calls[i].kind # "done"

Next ==
  \/ Active /\ OnOpenFileSettings /\ UNCHANGED aside
  \/ Active /\ \E p \in Paths : OnSelectFile(p) /\ UNCHANGED aside
  \/ Active /\ \E p \in Paths : OnOpenPath(p) /\ UNCHANGED aside
  \/ Active /\ \E o \in Owners, r \in Repos, b \in Branches, p \in Paths :
                 OnOpenFile(FileKey(o, r, b, p)) /\ UNCHANGED aside
  \/ Active /\ \E o \in Owners, r \in Repos : OnOpenRepo(o, r) /\ UNCHANGED aside
  \/ Active /\ \E o \in Owners, r \in Repos : OnSelectRepo(o, r) /\ UNCHANGED aside
  \/ Active /\ \E v \in Owners : SetOwner(v) /\ UNCHANGED aside
  \/ Active /\ \E v \in Repos : SetRepo(v) /\ UNCHANGED aside
  \/ Active /\ \E v \in Paths : SetPath(v) /\ UNCHANGED aside
  \/ Active /\ \E t \in Texts : SetContent(t) /\ UNCHANGED aside
  \/ Active /\ OpenConfirmSave /\ UNCHANGED aside
  \/ Active /\ CloseConfirmSave /\ UNCHANGED aside
  \/ Active /\ ConfirmSave /\ UNCHANGED aside
  \/ Active /\ \E p \in Paths : OnCreate(p) /\ UNCHANGED aside
  \/ Active /\ \E p \in Paths : OnDelete(p) /\ UNCHANGED aside
  \/ Active /\ OnLogout /\ UNCHANGED aside
  \/ Active /\ \E f \in ContendedFiles, t \in Texts \cup {NoFile} : ExternalChange(f, t) /\ UNCHANGED aside
  \/ Network(SessionHeaders)

Spec == Init /\ [][Next]_vars

\* fetchWithRetry on its own: one send with any retry budget
InitTransport ==
  /\ owner = "" /\ repo = "" /\ branch = "main" /\ path = ""
  /\ content = <<>> /\ sha = Null
  /\ openState = "idle" /\ saveState = "idle" /\ status = <<>>
  /\ hasToken = TRUE
  /\ confirmSaveOpen = FALSE
  /\ remote = [f \in HostedFiles |-> NoFile]
  /\ \E n \in 0..MaxRetries : calls = [i \in Slots |-> IF i = 1 THEN SendCall(n) ELSE NoCall]
  /\ shaOf = NoKey
  /\ sinceOpen = Null
  /\ AsideInit

NextTransport ==
  \/ \E i \in Slots : HostServes(i) /\ UNCHANGED aside
  \/ \E i \in Slots, st \in FailureStatuses, h \in Headers : HostRefuses(i, st, h) /\ UNCHANGED aside
  \/ \E i \in Slots : TimeoutFires(i) /\ UNCHANGED aside
  \/ WaitElapses /\ UNCHANGED aside
  \/ \E i \in Slots : Retry(i) /\ UNCHANGED aside

SpecTransport == InitTransport /\ [][NextTransport]_vars

\* The session after a.md has been opened: the state Spec reaches by selecting
\* the repository, selecting a.md in the tree and receiving the read's response.
OpenedFile == FileKey("o1", "r1", "main", "a.md")

InitSave ==
  /\ owner = "o1" /\ repo = "r1" /\ branch = "main" /\ path = "a.md"
  /\ content = TextList[2] /\ sha = BlobSha(TextList[2])
  /\ openState = "loaded" /\ saveState = "idle" /\ status = <<"Opened">>
  /\ hasToken = TRUE
  /\ confirmSaveOpen = FALSE
  /\ remote = [f \in HostedFiles |-> IF f \in ContendedFiles THEN TextList[2] ELSE <<>>]
  /\ calls = [i \in Slots |-> NoCall]
  /\ shaOf = OpenedFile
  /\ sinceOpen = BlobSha(TextList[2])
  /\ AsideInit

\* editing and saving the opened file, with the dialogs and requests that can
\* run beside a save
NextSave ==
  \/ Active /\ \E v \in Paths : SetPath(v) /\ UNCHANGED aside
  \/ Active /\ \E t \in Texts : SetContent(t) /\ UNCHANGED aside
  \/ Active /\ OpenConfirmSave /\ UNCHANGED aside
  \/ Active /\ CloseConfirmSave /\ UNCHANGED aside
  \/ Active /\ ConfirmSave /\ UNCHANGED aside
  \/ Active /\ \E p \in Paths : OnOpenPath(p) /\ UNCHANGED aside
  \/ Active /\ \E p \in Paths : OnCreate(p) /\ UNCHANGED aside
  \/ Active /\ OnLogout /\ UNCHANGED aside
  \/ Active /\ \E f \in ContendedFiles, t \in Texts \cup {NoFile} : ExternalChange(f, t) /\ UNCHANGED aside
  \/ Network(SessionHeaders)

SpecSave == InitSave /\ [][NextSave]_vars

\* ------------------------------------------------------------------ claims
SaveCalls == {i \in Slots : Live(i) /\ calls[i].from = "onSave"}
OpenCalls == {i \in Slots : Live(i) /\ calls[i].from = "onOpen"}

\* C1: every update write that Save issues carries a version token that was
\* obtained for the same owner, repo, branch and path as the write's target,
\* never the token of another path or repository context.
C1_UpdateCarriesTokenOfItsFile ==
  \A i \in SaveCalls : calls[i].kind = "putFile" => calls[i].shaOf = calls[i].file

\* C2: a Save invoked right after a successful Open issues an update write
\* that carries exactly the token that Open stored; and when a Save succeeds
\* the held token becomes the token of the write's response, which is the
\* token the host now has for the written file.
C2_SaveAfterOpen ==
  /\ [](\A i \in SaveCalls : calls[i].afterOpen # Null =>
           /\ calls[i].kind = "putFile"
           /\ calls[i].sha = calls[i].afterOpen)
  /\ [][\A i \in SaveCalls :
          LET f == calls[i].file
          IN (HostServes(i) /\ saveState' = "loaded") => sha' = BlobSha(remote'[f])]_vars

C2_SaveIssuedAfterOpen ==
  \E i \in SaveCalls : calls[i].afterOpen # Null /\ calls[i].kind = "putFile"

\* C3: when the host holds another token for the file than the one an update
\* write carries, the host's answer to the write makes Save end with
\* saveState error and the conflict message, and leaves the held token, the
\* editor content and the remote file as they were.
C3_ConflictKeepsTokenAndContent ==
  [][\A i \in SaveCalls :
       (/\ calls[i].kind = "putFile"
        /\ HostSha(calls[i].file) # Null
        /\ HostSha(calls[i].file) # calls[i].sha
        /\ HostServes(i))
       => (/\ saveState' = "error"
           /\ status' = ConflictText
           /\ sha' = sha
           /\ content' = content
           /\ remote' = remote)]_vars

C3_ConflictReported ==
  /\ status = ConflictText /\ saveState = "error"
  /\ Truthy(sha) /\ shaOf \in HostedFiles /\ HostSha(shaOf) # sha

SendCalls == {i \in Slots : calls[i].kind = "send"}

\* C5: a send re-issues its request only after a 429 or 403 response received
\* with retries > 0, and the retry has one retry less; every other response,
\* and a 429 or 403 received with retries = 0, is returned as it is; so a send
\* issues at most retries + 1 requests.
C5_RetryOnlyOnRateLimit ==
  /\ [](\A i \in SendCalls :
          /\ calls[i].retries >= 0
          /\ calls[i].attempts + calls[i].retries = calls[i].retries0 + 1)
  /\ [][\A i \in SendCalls, st \in FailureStatuses :
          \* the header of the response shows in the record only when a wait follows
          LET h == IF calls'[i].phase = "wait" THEN calls'[i].hdr ELSE NoHeader
          IN HostRefuses(i, st, h) =>
            IF (st = 429 \/ st = 403) /\ calls[i].retries > 0
            THEN /\ calls'[i].phase = "wait"
                 /\ calls'[i].attempts = calls[i].attempts
            ELSE /\ calls'[i].phase = "returned"
                 /\ calls'[i].result = st
                 /\ calls'[i].attempts = calls[i].attempts]_vars
  /\ [][\A i \in SendCalls :
          calls'[i].attempts # calls[i].attempts =>
            /\ calls[i].phase = "wait"
            /\ calls'[i].attempts = calls[i].attempts + 1
            /\ calls'[i].retries = calls[i].retries - 1]_vars

C5_RateLimitedTwice ==
  \E i \in SendCalls :
    /\ calls[i].phase = "returned" /\ calls[i].result = 429
    /\ calls[i].retries0 = DefaultRetries /\ calls[i].attempts = 2

\* The Retry-After value read as the claim reads it: the decimal number the
\* header starts with (after blanks), 0 when the header is absent or starts
\* with anything else.
C6_IsDigit(ch) == ch \in {"0", "1", "2", "3", "4", "5", "6", "7", "8", "9"}
C6_Body(h) ==
  IF h = NoHeader THEN <<>>
  ELSE LET blanks == {n \in 0..Len(h) : \A k \in 1..n : h[k] = " "}
           lead == CHOOSE n \in blanks : \A m \in blanks : m <= n
       IN SubSeq(h, lead + 1, Len(h))
C6_DigitCount(t) ==
  LET runs == {n \in 0..Len(t) : \A k \in 1..n : C6_IsDigit(t[k])}
  IN CHOOSE n \in runs : \A m \in runs : m <= n
RECURSIVE C6_Number(_, _)
C6_Number(t, n) ==
  IF n = 0 THEN 0
  ELSE C6_Number(t, n - 1) * 10 + (CHOOSE d \in 0..9 : DigitVal(t[n]) = d)
C6_Seconds(h) == LET t == C6_Body(h) IN C6_Number(t, C6_DigitCount(t))
C6_ExpectedWait(h) == IF C6_Seconds(h) > 0 THEN C6_Seconds(h) * 1000 ELSE 1000

\* C6: the wait before a retry is the Retry-After header's seconds times 1000
\* ms when the header is present and gives a positive number, 1000 ms
\* otherwise; and the retry is issued only when that wait has fully elapsed.
C6_WaitIsRetryAfter ==
  \A i \in SendCalls :
    /\ calls[i].phase = "wait" =>
         calls[i].waited + calls[i].remaining = C6_ExpectedWait(calls[i].hdr)
    /\ (calls[i].phase # "wait" /\ calls[i].attempts > 1) =>
         calls[i].waited = C6_ExpectedWait(calls[i].hdr)

C6_RetriedAfterTwoSeconds ==
  \E i \in SendCalls :
    /\ calls[i].attempts = 2 /\ calls[i].phase = "fetch"
    /\ calls[i].hdr = <<"2">> /\ calls[i].waited = 2000

\* C7: when the retry of a read is answered 429 again, no further request or
\* wait follows and the Open ends with openState error and the forbidden or
\* rate limited message.
C7_SecondRateLimitReported ==
  [][\A i \in OpenCalls, h \in SessionHeaders :
       (calls[i].attempts = 2 /\ HostRefuses(i, 429, h))
       => (/\ calls'[i] = Done
           /\ openState' = "error"
           /\ status' = ForbiddenText)]_vars

\* C8: when the timer of an attempt fires before a response has arrived, the
\* attempt ends, no further attempt is made, and the Open or Save that issued
\* it ends in the error state, showing the abort's message.
C8_TimeoutEndsInError ==
  [][\A i \in Slots :
       (Live(i) /\ TimeoutFires(i))
       => (/\ calls'[i] = Done
           /\ calls[i].from = "onOpen" =>
                (openState' = "error" /\ status' = AbortedText("Open failed"))
           /\ calls[i].from = "onSave" =>
                (saveState' = "error" /\ status' = AbortedText("Save failed")))]_vars

C8_OpenTimedOut == openState = "error" /\ status = AbortedText("Open failed")

\* C9: an Open with owner, repo and path sets openState to loading as it
\* issues the read; when the host serves the read of a file that exists,
\* content becomes the file's text, the held token the file's token and
\* openState loaded; when the read ends in any other way openState becomes
\* error; an Open without owner, repo or path issues no request and leaves
\* openState, content and the held token as they were.
C9_OpenOutcome ==
  /\ [][\A i \in Slots :
          (calls[i] = NoCall /\ calls'[i] # NoCall /\ calls'[i].from = "onOpen")
          => openState' = "loading"]_vars
  /\ [][\A i \in OpenCalls :
          LET f == calls[i].file
          IN IF HostServes(i) /\ HostSha(f) # Null
             THEN /\ openState' = "loaded"
                  /\ content' = remote[f]
                  /\ sha' = HostSha(f)
             ELSE calls'[i] = Done => openState' = "error"]_vars
  /\ [][\A p \in Paths :
          (OnOpenPath(p) /\ (owner = "" \/ repo = ""))
          => (/\ calls' = calls
              /\ openState' = openState
              /\ content' = content
              /\ sha' = sha)]_vars

\* C10: an Open started on a loaded file with a held token, when it fails,
\* leaves the content and the token that were held when it was started, and
\* a Save that fails leaves the content and the held token as they are.
C10_FailureKeepsLastState ==
  [][\A i \in Slots :
       /\ (/\ Live(i) /\ calls[i].from = "onOpen"
           /\ calls[i].wasLoaded /\ Truthy(calls[i].held) /\ hasToken
           /\ calls'[i] = Done /\ openState' = "error")
          => (sha' = calls[i].held /\ content' = content)
       /\ (/\ Live(i) /\ calls[i].from = "onSave"
           /\ calls'[i] = Done /\ saveState' = "error")
          => (sha' = sha /\ content' = content)]_vars

\* ------------------------------------------------------------------ delete
DeleteCalls == {i \in Slots : Live(i) /\ calls[i].kind = "deleteFile"}

\* C11: a delete request for a path is issued only while the session holds a
\* version token for that same path, and it carries that token: no delete is
\* sent for one path with the token that was read for another.
C11_DeleteCarriesTokenOfItsFile ==
  \A i \in DeleteCalls : calls[i].shaOf = calls[i].file

\* ------------------------------------------------------------------ logout
\* C12: a logout clears the credential, the session (content empty, token
\* null, path empty, load state idle) and the pending confirmation, so that
\* no commit dialog stays open after it.
C12_LogoutClearsPending ==
  [][OnLogout => /\ ~hasToken'
                 /\ content' = <<>> /\ sha' = Null /\ path' = "" /\ openState' = "idle"
                 /\ ~confirmSaveOpen']_vars

\* ------------------------------------------------------- changes of context
\* The opened file's session under the operations that change the context:
\* the settings drawer's owner and repository fields, the command palette's
\* repository entries, the repository picker; and the tree's file selection.
ContextOwners == {"o1", "o2"}
ContextRepos == {"r1", "r2"}

NextContext ==
  \/ Active /\ \E v \in ContextOwners : SetOwner(v) /\ UNCHANGED aside
  \/ Active /\ \E v \in ContextRepos : SetRepo(v) /\ UNCHANGED aside
  \/ Active /\ \E o \in ContextOwners, r \in ContextRepos : OnOpenRepo(o, r) /\ UNCHANGED aside
  \/ Active /\ \E o \in ContextOwners, r \in ContextRepos : OnSelectRepo(o, r) /\ UNCHANGED aside
  \/ Active /\ \E p \in Paths : OnSelectFile(p) /\ UNCHANGED aside
  \/ Network(SessionHeaders)

SpecContext == InitSave /\ [][NextContext]_vars

\* the file the held token was read for is a file of the current context
TokenOfCurrentContext ==
  <<shaOf[1], shaOf[2], shaOf[3]>> = <<owner, repo, BranchOrMain(branch)>>

\* C13: no reachable state pairs content or a version token obtained under
\* one (owner, repo, branch) with a different current (owner, repo, branch):
\* every change of the context resets the session.
C13_SessionOfCurrentContext ==
  Truthy(sha) /\ shaOf # NoKey => TokenOfCurrentContext

\* ---------------------------------------------------------------- FileTree
MaxListings == 2
MaxListed == 2

\* `{(owner && repo) && ... <FileTree .../>}`
Shown(o, r) == o # "" /\ r # ""

\* a pending listDirectory(owner, repo, node.path, branch) of loadChildren(node);
\* toggle: onToggle awaits it
Listing(ctx, p, toggle) == [ctx |-> ctx, path |-> p, toggle |-> toggle]

\* the effect `if (owner && repo && !root.loaded) void loadChildren(root)` run
\* in a render with context ctx and root state t: the calls it makes
RootLoadEffect(ctx, t) ==
  IF Shown(ctx[1], ctx[2]) /\ ~t.loaded THEN <<Listing(ctx, t.path, FALSE)>> ELSE <<>>

CountFor(ls, p) == Len(SelectSeq(ls, LAMBDA c : c.path = p))

\* The renders and effects that follow a change of owner, repo or branch to
\* o, r, b.  When the tree was not shown it is constructed, with a first
\* root state; otherwise the render has the root state as it is.  The reset
\* effect sets a fresh root and the load effect runs on the root of that
\* render; the fresh root is another object, so that the render after it
\* runs the load effect again.
ContextEffects(o, r, b) ==
  LET ctx == <<o, r, b>>
      first == RootLoadEffect(ctx, IF Shown(owner, repo) THEN root ELSE FreshRoot)
      second == RootLoadEffect(ctx, FreshRoot)
  IN /\ Shown(o, r)
     /\ Len(listings) + Len(first \o second) <= MaxListings
     /\ root' = FreshRoot
     /\ filter' = IF Shown(owner, repo) THEN filter ELSE <<>>
     /\ listings' = listings \o first \o second
     /\ listed' = [p \in DirPaths |-> CountFor(first \o second, p)]
     /\ failedDirs' = {}

\* SettingsDrawer repo field, with the tree's effects
SetRepoTree(v) ==
  /\ SetRepo(v)
  /\ ContextEffects(owner, v, branch)
  /\ UNCHANGED libVars

\* the nodes that TreeNode renders under node, by path
RECURSIVE Rendered(_)
Rendered(node) ==
  {node.path} \cup
  (IF node.expanded /\ Len(ChildrenOrNone(node)) > 0
   THEN UNION {Rendered(node.children[i]) : i \in 1..Len(node.children)}
   ELSE {})

\* the calls of loadChildren(root) that the load effect makes after setRoot
\* has stored the tree value t, another object than before or not
AfterSetRoot(t, changed) ==
  IF changed THEN RootLoadEffect(<<owner, repo, branch>>, t) ELSE <<>>

\* the expanded flag is toggled: `!findNode(prev, n.path)?.expanded`
ToggledExpanded(t, p) ==
  LET f == findNode(t, p) IN IF f = <<>> THEN TRUE ELSE ~f[1].expanded
ToggleExpanded(t, p) == SetRoot(t, p, FALSE, <<>>, [expanded |-> ToggledExpanded(t, p)])

\* loadChildren(node) goes on to the request: `node.type !== 'dir' || node.loaded`
\* is false
LoadsChildren(node) == node.type = "dir" /\ ~node.loaded

\* onToggle(n) for the directory row n, of path p, of the tree shown
OnToggle(shown, p) ==
  LET n == findNode(shown, p)[1]
  IN /\ Shown(owner, repo)
     /\ p # "" /\ p \in Rendered(shown)
     /\ n.type = "dir"
     /\ IF LoadsChildren(n)
        THEN /\ Len(listings) < MaxListings /\ listed[p] < MaxListed
             /\ listings' = Append(listings, Listing(<<owner, repo, branch>>, p, TRUE))
             /\ listed' = [listed EXCEPT ![p] = @ + 1]
             /\ UNCHANGED root
        ELSE LET s == ToggleExpanded(root, p)
                 eff == AfterSetRoot(s.root, s.changed)
             IN /\ Len(listings) + Len(eff) <= MaxListings
                /\ root' = s.root
                /\ listings' = listings \o eff
                /\ listed' = [q \in DirPaths |-> listed[q] + CountFor(eff, q)]
     /\ UNCHANGED <<filter, failedDirs, session, remote, calls, libVars>>

Without(ls, k) == SubSeq(ls, 1, k - 1) \o SubSeq(ls, k + 1, Len(ls))

\* loadChildren after `await listDirectory(...)` of the pending call c has
\* given kids (the catch branch gives none), and onToggle after it
Loaded(k, kids) ==
  LET c == listings[k]
      s1 == SetRoot(root, c.path, TRUE, kids, [loaded |-> TRUE])
      s2 == IF c.toggle THEN ToggleExpanded(s1.root, c.path)
            ELSE [root |-> s1.root, changed |-> FALSE]
      eff == AfterSetRoot(s2.root, s1.changed \/ s2.changed)
  IN /\ Len(listings) - 1 + Len(eff) <= MaxListings
     /\ root' = s2.root
     /\ listings' = Without(listings, k) \o eff
     /\ listed' = [q \in DirPaths |-> listed[q] + CountFor(eff, q)]
     /\ UNCHANGED <<filter, session, remote, calls, libVars>>

\* the host answers the listing
ListingResolves(k) ==
  /\ k \in 1..Len(listings)
  /\ HasDirectory(listings[k].ctx, listings[k].path)
  /\ Loaded(k, ChildrenOf(HostDirectories[listings[k].ctx][listings[k].path]))
  /\ UNCHANGED failedDirs

\* the listing fails: not found, refused, timed out; the catch branch writes
\* the directory to the console
ListingFails(k) ==
  /\ k \in 1..Len(listings)
  /\ Loaded(k, <<>>)
  /\ failedDirs' = IF listings[k].ctx = <<owner, repo, branch>>
                   THEN failedDirs \cup {listings[k].path} ELSE failedDirs

\* the filter field
Filters == {<<>>, <<"a">>, <<" ", "D">>}
SetFilter(f) ==
  /\ Shown(owner, repo)
  /\ filter # f
  /\ filter' = f
  /\ UNCHANGED <<root, listings, listed, failedDirs, session, remote, calls, libVars>>

\* The owner is given and no repository yet: the tree is not shown.
InitTree ==
  /\ owner = "o1" /\ repo = "" /\ branch = "main" /\ path = ""
  /\ content = <<>> /\ sha = Null
  /\ openState = "idle" /\ saveState = "idle" /\ status = <<>>
  /\ hasToken = TRUE
  /\ confirmSaveOpen = FALSE
  /\ remote = [f \in HostedFiles |-> IF f \in ContendedFiles THEN TextList[2] ELSE <<>>]
  /\ calls = [i \in Slots |-> NoCall]
  /\ shaOf = NoKey
  /\ sinceOpen = Null
  /\ AsideInit

\* the repository typed
TreeRepos == {"r1"}

NextTree ==
  \/ \E v \in TreeRepos : SetRepoTree(v)
  \/ LET shown == visibleTree IN \E p \in Rendered(shown) : OnToggle(shown, p)
  \/ \E k \in 1..MaxListings : ListingResolves(k)
  \/ \E k \in 1..MaxListings : ListingFails(k)
  \/ \E f \in Filters : SetFilter(f)

SpecTree == InitTree /\ [][NextTree]_vars

\* C14: within one repository context a directory node is listed once: the
\* first expansion of an unloaded directory, or the load of the root when the
\* context is first shown, makes one listDirectory call for the node, and
\* no later expansion makes another.
C14_OneListingPerNode == \A p \in DirPaths : listed[p] <= 1

\* ------------------------------------------------------ the tree's invariants
\* a before b in a children list: directories before files, and within a
\* group the names ascending
InOrder(a, b) ==
  IF a.type # b.type THEN a.type = "dir" ELSE localeCompare(a.name, b.name) <= 0

RECURSIVE WellFormed(_)
WellFormed(node) ==
  /\ node.type \in {"file", "dir"}
  /\ ~node.loaded => ~HasChildren(node)
  /\ node.loaded => node.type = "dir" /\ HasChildren(node)
  /\ \A i, j \in 1..Len(ChildrenOrNone(node)) :
       i < j => InOrder(node.children[i], node.children[j])
  /\ \A i \in 1..Len(ChildrenOrNone(node)) : WellFormed(node.children[i])

\* C15: in every reachable tree a node that is not loaded has no children
\* list, the children of a loaded directory are its directories and then its
\* files, each group in ascending order of name, and no entry that is neither
\* a file nor a directory is in the tree.
C15_TreeWellFormed == WellFormed(root)

\* the root is loaded with the two directories and the two files of o1/r1,
\* which the host lists in another order and with a symbolic link
C15_RootListed ==
  /\ root.loaded /\ Len(root.children) = 4
  /\ root.children[1].type = "dir" /\ root.children[4].type = "file"

\* --------------------------------------------------------------- applyUpdate
\* the target paths and the patches applyUpdate is checked with: the root, a
\* directory of the root, a directory and a file of a directory, no node;
\* the patch of a collapse and the patch of a failed load
ApplyTargets == {"", "D", "sd/Ab", "sd/x", "none"}
ApplyPatches == {[expanded |-> FALSE], [children |-> <<>>, loaded |-> TRUE]}

\* the object of path p among those reached from ref in h, or 0
TargetRef(h, ref, p) ==
  LET s == {i \in Reached(h, ref) : h[i].path = p}
  IN IF s = {} THEN 0 ELSE CHOOSE i \in s : TRUE

\* the objects from ref down to tref
OnPath(h, ref, tref) == {i \in Reached(h, ref) : tref \in Reached(h, i)}

\* the tree value t without the node of path p and what is under it
RECURSIVE Outside(_, _), OutsideAll(_, _)
Outside(t, p) ==
  IF t.path = p THEN [path |-> p]
  ELSE IF HasChildren(t) THEN [t EXCEPT !.children = OutsideAll(t.children, p)]
  ELSE t
OutsideAll(ts, p) ==
  IF ts = <<>> THEN <<>> ELSE <<Outside(Head(ts), p)>> \o OutsideAll(Tail(ts), p)

\* the objects of the input are as they were
C16_NotMutated(h0, r) == SubSeq(r.heap, 1, Len(h0.heap)) = h0.heap

\* new has the fields of the patch and otherwise those of old
C16_Merged(old, new, patch) ==
  /\ DOMAIN new = DOMAIN old \cup DOMAIN patch
  /\ \A k \in DOMAIN patch : new[k] = patch[k]
  /\ \A k \in DOMAIN old \ DOMAIN patch : new[k] = old[k]

\* the target is replaced by the merge, in a new object, and the nodes that
\* are not the target or under it have the fields they had
C16_Replaced(h0, r, target, patch) ==
  LET tref == TargetRef(h0.heap, h0.ref, target)
      nref == TargetRef(r.heap, r.ref, target)
  IN IF tref = 0 THEN View(r.heap, r.ref) = root
     ELSE /\ nref > Len(h0.heap)
          /\ C16_Merged(h0.heap[tref], r.heap[nref], patch)
          /\ Outside(View(r.heap, r.ref), target) = Outside(root, target)

\* the target and its ancestors are not in the result: new objects stand for them
C16_PathNew(h0, r, target) ==
  LET tref == TargetRef(h0.heap, h0.ref, target)
  IN tref # 0 => OnPath(h0.heap, h0.ref, tref) \cap Reached(r.heap, r.ref) = {}

\* every node off the path from the root to the target that is still in the
\* tree is the object it was
C16_OutsideShared(h0, r, target, patch) ==
  LET tref == TargetRef(h0.heap, h0.ref, target)
  IN tref # 0 =>
       \A i \in Reached(h0.heap, h0.ref) \ OnPath(h0.heap, h0.ref, tref) :
         \/ i \in Reached(h0.heap, tref) /\ "children" \in DOMAIN patch
         \/ i \in Reached(r.heap, r.ref)

\* which objects of the input are in the result: under the target all of
\* them, unless the patch gives other children; elsewhere those that have no
\* children list
C16_Rebuilt(h0, r, target, patch) ==
  LET tref == TargetRef(h0.heap, h0.ref, target)
  IN \A i \in Reached(h0.heap, h0.ref) :
       i \in Reached(r.heap, r.ref) <=>
         IF tref # 0 /\ i \in Reached(h0.heap, tref)
         THEN i # tref /\ "children" \notin DOMAIN patch
         ELSE ~HasChildren(h0.heap[i])

\* C16 as stated: applyUpdate replaces the node of the target path by the
\* merge of its fields and the patch, leaves every other node's fields and
\* the input tree as they are, makes new objects of the target and of its
\* ancestors, and shares every node off the root-to-target path with the input.
C16_ApplyUpdateShares ==
  \A target \in ApplyTargets, patch \in ApplyPatches :
    LET h0 == Load(<<>>, root)
        r == applyUpdate(h0.heap, h0.ref, target, patch)
    IN /\ C16_NotMutated(h0, r)
       /\ C16_Replaced(h0, r, target, patch)
       /\ C16_PathNew(h0, r, target)
       /\ C16_OutsideShared(h0, r, target, patch)

\* C16 amended: applyUpdate replaces the node of the target path by the merge
\* and leaves every other node's fields and the input tree as they are; the
\* target, its ancestors and every other node with a children list that is
\* not under the target are new objects, and the nodes under the target and
\* the nodes without a children list are shared with the input.
C16_ApplyUpdateRebuilds ==
  \A target \in ApplyTargets, patch \in ApplyPatches :
    LET h0 == Load(<<>>, root)
        r == applyUpdate(h0.heap, h0.ref, target, patch)
    IN /\ C16_NotMutated(h0, r)
       /\ C16_Replaced(h0, r, target, patch)
       /\ C16_Rebuilt(h0, r, target, patch)

\* D has been collapsed or expanded by applyUpdate in a tree in which sd,
\* off the path from the root to D, is loaded with its children
C16_UpdatedBesideLoaded ==
  /\ root.loaded /\ Len(root.children) = 4
  /\ root.children[1].path = "D" /\ root.children[1].expanded
  /\ root.children[2].path = "sd" /\ root.children[2].loaded
  /\ Len(root.children[2].children) = 2

\* -------------------------------------------------------------------- filter
\* the paths of the nodes of the tree value t
RECURSIVE AllPaths(_)
AllPaths(t) ==
  {t.path} \cup UNION {AllPaths(t.children[i]) : i \in 1..Len(ChildrenOrNone(t))}

NodeAt(t, p) == findNode(t, p)[1]

\* the name contains the query, whatever the case of the letters
C17_Contains(name, query) == includes(toLowerCase(name), toLowerCase(query))

\* what the claim keeps: a file whose name contains the query, a directory
\* whose name or one of whose descendants' names contains it
C17_Keeps(n, query) ==
  \/ C17_Contains(n.name, query)
  \/ /\ n.type = "dir"
     /\ \E d \in AllPaths(n) : C17_Contains(NodeAt(n, d).name, query)

\* the tree shown is the cached tree's nodes that are kept for the query, the
\* directories among them expanded
C17_ShowsKept(query) ==
  LET shown == visibleTree
  IN /\ \A p \in AllPaths(root) \ {""} :
          p \in AllPaths(shown) <=> C17_Keeps(NodeAt(root, p), query)
     /\ \A p \in AllPaths(shown) :
          NodeAt(shown, p).type = "dir" => NodeAt(shown, p).expanded

\* C17 as stated: with a non-empty query the filter keeps a file iff its name
\* contains the query case-insensitively and a directory iff its name or a
\* descendant's does, and every directory kept is expanded.
C17_FilterKeepsMatches == filter # <<>> => C17_ShowsKept(filter)

\* C17 amended: the same for the query trimmed of the white space around it,
\* when that is not empty.
C17_FilterKeepsTrimmedMatches == trim(filter) # <<>> => C17_ShowsKept(trim(filter))

\* a filter is set on the loaded root and the tree shown has some of the
\* root's children and not all
C17_Filtered ==
  /\ root.loaded /\ trim(filter) # <<>>
  /\ Len(visibleTree.children) > 0
  /\ Len(visibleTree.children) < Len(root.children)

\* C18: computing the filtered view leaves the cached tree as it was: every
\* node's children list, expanded flag and loaded flag, so that the full tree
\* is shown with its expansion state when the query is cleared.
C18_FilterLeavesCache ==
  LET v == Filtering(root, filter)
  IN /\ View(v.heap, v.cached) = root
     /\ SubSeq(v.heap, 1, v.cached) = Load(<<>>, root).heap

\* a filter is set on a tree with a loaded directory that is collapsed in the
\* cache and expanded in the view
C18_ShownExpanded ==
  /\ trim(filter) # <<>> /\ root.loaded
  /\ \E i \in 1..Len(root.children) :
       /\ root.children[i].loaded /\ ~root.children[i].expanded
       /\ root.children[i].path \in AllPaths(visibleTree)

\* the view computed once more, after the first computation, from the same
\* cached root
C19_ViewAgain ==
  LET v == Filtering(root, filter)
      q == toLowerCase(trim(filter))
  IN IF q = <<>> THEN View(v.heap, v.cached)
     ELSE LET c == cloneTree(v.heap, v.cached)
          IN View(filterTreeInPlace(c.heap, c.ref, q).heap, c.ref)

\* C19: filtering the same tree twice with the same query gives equal trees,
\* filtering a tree that is already filtered with the query changes nothing,
\* and the empty query gives a tree equal to the input.
C19_FilterIdempotent ==
  /\ C19_ViewAgain = visibleTree
  /\ VisibleTree(visibleTree, filter) = visibleTree
  /\ VisibleTree(root, <<>>) = root

\* a filter is set that removes nodes of the loaded root, and the loaded
\* directory sd is shown
C19_FilteredShown ==
  /\ trim(filter) # <<>> /\ root.loaded
  /\ visibleTree # root
  /\ "sd" \in AllPaths(visibleTree) /\ NodeAt(root, "sd").loaded

\* --------------------------------------------------------------- text coding
\* The texts of a remote file: a line feed, a letter, and characters of two,
\* three and four bytes in UTF-8, in every sequence up to MaxTextLen.
CodePoints == {10, 65, 233, 8364, 128512}
CodecTexts == UNION {[1..n -> CodePoints] : n \in 0..MaxTextLen}

\* a.md holds any of the texts and is opened from the settings drawer
InitCodec ==
  /\ owner = "o1" /\ repo = "r1" /\ branch = "main" /\ path = "a.md"
  /\ content = <<>> /\ sha = Null
  /\ openState = "idle" /\ saveState = "idle" /\ status = <<>>
  /\ hasToken = TRUE
  /\ confirmSaveOpen = FALSE
  /\ \E s \in CodecTexts :
       remote = [f \in HostedFiles |-> IF f \in ContendedFiles THEN s ELSE <<>>]
  /\ calls = [i \in Slots |-> NoCall]
  /\ shaOf = NoKey
  /\ sinceOpen = Null
  /\ AsideInit

NextCodec ==
  \/ Active /\ OnOpenFileSettings /\ UNCHANGED aside
  \/ \E i \in Slots : HostServes(i) /\ UNCHANGED aside

SpecCodec == InitCodec /\ [][NextCodec]_vars

\* C20: decoding the encoding of a text gives the text, for texts with
\* characters of several bytes and with line feeds, and also when the host has
\* broken the encoded blob into lines, as Open removes the line feeds before
\* it decodes: the content of an opened file is the remote text.
C20_RoundTrip ==
  LET s == remote[OpenedFile]
  IN /\ fromBase64Unicode(toBase64Unicode(s)) = s
     /\ fromBase64Unicode(StripNewlines(HostChunk(toBase64Unicode(s)))) = s
     /\ openState = "loaded" => content = s

\* a text of a two-byte character, a line feed and a four-byte character has
\* been opened, from a blob of more than one line
C20_OpenedMultiByte ==
  /\ openState = "loaded" /\ content = <<233, 10, 128512>>
  /\ Len(HostChunk(toBase64Unicode(content))) > Len(toBase64Unicode(content)) + 1

\* --------------------------------------------------------- listEditableRepos
MaxPage == 3

\* A repository of the page: its place in the page as id, archived, and
\* permissions.push when the host gives it.
RepoKinds ==
  {[archived |-> a] : a \in BOOLEAN} \cup
  {[archived |-> a, push |-> w] : a \in BOOLEAN, w \in BOOLEAN}
WithId(kinds) ==
  [i \in 1..Len(kinds) |->
     IF "push" \in DOMAIN kinds[i]
     THEN [id |-> i, archived |-> kinds[i].archived, push |-> kinds[i].push]
     ELSE [id |-> i, archived |-> kinds[i].archived]]
Pages == {WithId(k) : k \in UNION {[1..n -> RepoKinds] : n \in 0..MaxPage}}
Limits == (0 - 1)..(MaxPage + 1)

Max(a, b) == IF a >= b THEN a ELSE b
Min(a, b) == IF a <= b THEN a ELSE b

\* `!r.archived`
NotArchived(r) == ~r.archived

\* `!r.archived && (r.permissions?.push ?? false)`
Editable(r) == ~r.archived /\ (IF "push" \in DOMAIN r THEN r.push ELSE FALSE)

\* `repos.filter(...).slice(0, Math.max(0, limit))`
listEditableRepos(repos, n) ==
  LET filtered == SelectSeq(repos, Editable)
  IN SubSeq(filtered, 1, Min(Len(filtered), Max(0, n)))

\* the page has come with an ok status
ReposListed ==
  /\ editable = NotAsked
  /\ editable' = [outcome |-> "listed", repos |-> listEditableRepos(page, limit)]
  /\ UNCHANGED <<page, limit, treeVars, navVars, authVars, logVars, userVars, recentVars, msgVars, dirVars, session, remote, calls>>

\* `if (!res.ok) throw await errorFromResponse(res)`
HttpErrorThrown == [outcome |-> "HttpError"]
ReposRefused ==
  /\ editable = NotAsked
  /\ editable' = HttpErrorThrown
  /\ UNCHANGED <<page, limit, treeVars, navVars, authVars, logVars, userVars, recentVars, msgVars, dirVars, session, remote, calls>>

\* the session before any file is opened, with a token stored
Idle ==
  /\ owner = "" /\ repo = "" /\ branch = "main" /\ path = ""
  /\ content = <<>> /\ sha = Null
  /\ openState = "idle" /\ saveState = "idle" /\ status = <<>>
  /\ hasToken = TRUE
  /\ confirmSaveOpen = FALSE
  /\ remote = [f \in HostedFiles |-> IF f \in ContendedFiles THEN TextList[2] ELSE <<>>]
  /\ calls = [i \in Slots |-> NoCall]
  /\ shaOf = NoKey
  /\ sinceOpen = Null

\* listEditableRepos(limit) for any page of the host and any limit
InitRepos ==
  /\ Idle
  /\ TreeInit
  /\ NavInit
  /\ AuthInit
  /\ LogInit
  /\ UserInit
  /\ RecentInit
  /\ MsgInit
  /\ DirInit
  /\ page \in Pages
  /\ limit \in Limits
  /\ editable = NotAsked

NextRepos ==
  \/ ReposListed
  \/ ReposRefused

SpecRepos == InitRepos /\ [][NextRepos]_vars

\* the places of the page whose repository is not archived and has
\* permissions.push true, and the k-th of them
C21_Qualifying == {i \in 1..Len(page) : page[i].archived = FALSE /\ "push" \in DOMAIN page[i] /\ page[i].push = TRUE}
C21_Nth(k) == CHOOSE i \in C21_Qualifying : Cardinality({j \in C21_Qualifying : j < i}) = k - 1

\* C21: the repositories listEditableRepos(limit) returns are at most limit,
\* none when limit <= 0, each is not archived and has push permission, and
\* they are the first limit qualifying repositories of the page, in the
\* page's order.
C21_FirstQualifying ==
  editable.outcome = "listed" =>
    /\ Len(editable.repos) <= Max(0, limit)
    /\ limit <= 0 => editable.repos = <<>>
    /\ Len(editable.repos) = Min(Cardinality(C21_Qualifying), Max(0, limit))
    /\ \A k \in 1..Len(editable.repos) : editable.repos[k] = page[C21_Nth(k)]

\* a page of an archived repository followed by two qualifying ones, listed
\* with limit 1: the archived one is passed over and the list cut after one
C21_SkippedOneListedOne ==
  /\ Len(page) = 3 /\ limit = 1
  /\ page[1].archived /\ {2, 3} \subseteq C21_Qualifying
  /\ editable.outcome = "listed" /\ editable.repos = <<page[2]>>

\* -------------------------------------------------------------- listDirectory
\* the paths asked for: the directories, files, a symbolic link, a path that
\* is not in the repository
ListPaths == DirPaths \cup {"B", "a", "sd/x", "z", "l", "none"}

\* the entry of path p in the repository of ctx, if there is one
EntriesOf(ctx) ==
  UNION {{HostDirectories[ctx][d][i] : i \in 1..Len(HostDirectories[ctx][d])} : d \in DirPaths}
EntryAt(ctx, p) == {e \in EntriesOf(ctx) : e.path = p}

\* GET /repos/{owner}/{repo}/contents/{path}: an array for a directory, one
\* object for anything else, 404 for a path that is not there
HostContents(ctx, p) ==
  IF HasDirectory(ctx, p)
  THEN [status |-> 200, isArray |-> TRUE, data |-> HostDirectories[ctx][p]]
  ELSE IF EntryAt(ctx, p) # {}
  THEN [status |-> 200, isArray |-> FALSE, data |-> <<CHOOSE e \in EntryAt(ctx, p) : TRUE>>]
  ELSE [status |-> 404, isArray |-> FALSE, data |-> <<>>]

RefusalStatuses == FailureStatuses \cup {304}
Refusal(st) == [status |-> st, isArray |-> FALSE, data |-> <<>>]

\* `if (data && data.type === 'file') return [data]; return []`
listObject(res) ==
  IF res.data # <<>> /\ res.data[1].type = "file" THEN <<res.data[1]>> ELSE <<>>

\* listDirectory without `if (!res.ok) throw ...`
listDirectoryUnchecked(res) ==
  IF res.isArray THEN [outcome |-> "listed", entries |-> res.data]
  ELSE [outcome |-> "listed", entries |-> listObject(res)]

\* listDirectory after `await githubFetch(...)` has given res
listDirectory(res) ==
  IF ~Ok(res.status) THEN [outcome |-> "HttpError", status |-> res.status]
  ELSE IF res.isArray THEN [outcome |-> "listed", entries |-> res.data]
  ELSE [outcome |-> "listed", entries |-> listObject(res)]

\* the host answers the request with the contents of the path
HostLists ==
  /\ dirEntries = NotAsked
  /\ dirEntries' = listDirectory(HostContents(asked.ctx, asked.path))
  /\ UNCHANGED <<asked, treeVars, navVars, authVars, logVars, userVars, recentVars, msgVars, repoVars, session, remote, calls>>

\* the host or the proxy answers with a status that is not 2xx
HostRefusesListing(st) ==
  /\ dirEntries = NotAsked
  /\ dirEntries' = listDirectory(Refusal(st))
  /\ UNCHANGED <<asked, treeVars, navVars, authVars, logVars, userVars, recentVars, msgVars, repoVars, session, remote, calls>>

InitDirectory ==
  /\ Idle
  /\ TreeInit
  /\ NavInit
  /\ AuthInit
  /\ LogInit
  /\ UserInit
  /\ RecentInit
  /\ MsgInit
  /\ RepoInit
  /\ asked \in [ctx : TreeContexts, path : ListPaths]
  /\ dirEntries = NotAsked

NextDirectory ==
  \/ HostLists
  \/ \E st \in RefusalStatuses : HostRefusesListing(st)

\* the direct successors of a listDirectory call, by the answer
SpecDirectory == InitDirectory /\ [][NextDirectory]_vars

\* the path asked for is a file of the repository
C22_IsFile ==
  \E d \in DirPaths : \E i \in 1..Len(HostDirectories[asked.ctx][d]) :
     /\ HostDirectories[asked.ctx][d][i].path = asked.path
     /\ HostDirectories[asked.ctx][d][i].type = "file"

\* C22: listDirectory returns the host's entries in the host's order when the
\* path is a directory, a sequence of one element when the path is a file,
\* and after a response that is not 2xx it raises HttpError and returns no
\* sequence.
C22_ListDirectory ==
  /\ [][HostLists /\ HasDirectory(asked.ctx, asked.path)
          => dirEntries' = [outcome |-> "listed", entries |-> HostDirectories[asked.ctx][asked.path]]]_vars
  /\ [][HostLists /\ C22_IsFile
          => /\ dirEntries'.outcome = "listed" /\ Len(dirEntries'.entries) = 1
             /\ dirEntries'.entries[1].path = asked.path]_vars
  /\ [][\A st \in RefusalStatuses : HostRefusesListing(st)
          => dirEntries' = [outcome |-> "HttpError", status |-> st]]_vars
  /\ [](dirEntries.outcome = "HttpError" => ~Ok(dirEntries.status))

\* the root of o1/r1 has been listed with its five entries, the symbolic
\* link among them
C22_RootListed ==
  /\ asked = [ctx |-> <<"o1", "r1", "main">>, path |-> ""]
  /\ dirEntries.outcome = "listed" /\ Len(dirEntries.entries) = 5

\* ------------------------------------------------------- requests in flight
\* the requests of handler h that have been issued and not yet resumed
InFlight(h) == {i \in Slots : Live(i) /\ calls[i].from = h}

\* C23: at most one Open and at most one Save are in flight at any time.
C23_OneOpenOneSave ==
  /\ Cardinality(InFlight("onOpen")) <= 1
  /\ Cardinality(InFlight("onSave")) <= 1

\* ------------------------------------------------------------ racing Opens
\* The repository o1/r1 is selected and both of its files have text; files are
\* opened from the tree and from the command palette, and the host answers
\* in any order.
OtherText == <<65>>
InitRace ==
  /\ owner = "o1" /\ repo = "r1" /\ branch = "main" /\ path = ""
  /\ content = <<>> /\ sha = Null
  /\ openState = "idle" /\ saveState = "idle" /\ status = <<>>
  /\ hasToken = TRUE
  /\ confirmSaveOpen = FALSE
  /\ remote = [f \in HostedFiles |-> IF f \in ContendedFiles THEN TextList[2] ELSE OtherText]
  /\ calls = [i \in Slots |-> NoCall]
  /\ shaOf = NoKey
  /\ sinceOpen = Null
  /\ AsideInit

NextRace ==
  \/ Active /\ \E p \in Paths : OnSelectFile(p) /\ UNCHANGED aside
  \/ Active /\ \E p \in Paths : OnOpenPath(p) /\ UNCHANGED aside
  \/ Network(SessionHeaders)

SpecRace == InitRace /\ [][NextRace]_vars

\* C24: when the reads of two Opens were in flight together and both
\* responses have been processed, the response that arrived last determines
\* the session: the path, the content and the held token all belong to the
\* file of that response.  (A session that is loaded with no read pending
\* holds the file of the response processed last.)
C24_LastResponseWins ==
  (InFlight("onOpen") = {} /\ openState = "loaded") =>
    /\ shaOf # NoKey
    /\ content = remote[shaOf]
    /\ sha = HostSha(shaOf)
    /\ path = shaOf[4]

\* --------------------------------------------------------------- racing Saves
\* The host takes the request: it serves it on the files as they are and
\* sends the response, which is on its way to the page.
HostTakes(i) ==
  /\ Live(i) /\ calls[i].phase = "fetch"
  /\ \E a \in HostAnswers(calls[i]) :
       /\ remote' = a[2]
       /\ calls' = [calls EXCEPT ![i] = [@ EXCEPT !.phase = "answered"] @@ [resp |-> a[1]]]
  /\ UNCHANGED session

\* The response arrives: `await fetch(...)` resolves
ResponseArrives(i) ==
  /\ Live(i) /\ calls[i].phase = "answered"
  /\ FetchResolves(i, calls[i].resp, NoHeader)
  /\ UNCHANGED remote

\* a.md is open; the buffer is edited and saved, again while a write is
\* pending, and the responses arrive in any order
NextTwoSaves ==
  \/ Active /\ \E t \in Texts : SetContent(t) /\ UNCHANGED aside
  \/ Active /\ OpenConfirmSave /\ UNCHANGED aside
  \/ Active /\ ConfirmSave /\ UNCHANGED aside
  \/ \E i \in Slots : HostTakes(i) /\ UNCHANGED aside
  \/ \E i \in Slots : ResponseArrives(i) /\ UNCHANGED aside

SpecTwoSaves == InitSave /\ [][NextTwoSaves]_vars

\* the requests issued so far are two Saves, i before j
C25_TwoSaves(i, j) ==
  /\ i < j
  /\ {k \in Slots : calls[k] # NoCall} = {i, j}
  /\ calls[j] # Done /\ calls[j].from = "onSave"
  /\ calls[i] = Done \/ calls[i].from = "onSave"

\* both are pending
C25_Racing(i, j) == C25_TwoSaves(i, j) /\ calls[i] # Done

\* two pending Saves carry the same token
C25_SameToken ==
  \A i, j \in Slots : C25_Racing(i, j) =>
     /\ calls[i].kind = "putFile" /\ calls[j].kind = "putFile"
     /\ calls[i].sha = calls[j].sha

\* the host accepts the write of i while the write of j has not reached it
C25_FirstAccepted(i, j) ==
  /\ C25_Racing(i, j) /\ calls[i].phase = "fetch" /\ calls[j].phase = "fetch"
  /\ HostTakes(i) /\ Ok(calls'[i].resp.status)

\* the host then refuses the write of j with 409
C25_SecondConflicts(j) == \A a \in HostAnswers(calls[j])' : a[1].status = 409

\* The last response of two Saves arrives, j's, and one of the two writes was
\* accepted (saveState is what the response of the other left): the held
\* token is then the token the accepted write returned, which is the
\* token of the file as it is.
C25_TokenOfAcceptedWrite ==
  \A i, j \in Slots :
     (/\ (C25_TwoSaves(i, j) \/ C25_TwoSaves(j, i)) /\ calls[i] = Done
      /\ calls[j] # Done /\ calls[j].phase = "answered"
      /\ (saveState = "loaded") # Ok(calls[j].resp.status)
      /\ ResponseArrives(j))
     => /\ sha' = (IF saveState = "loaded" THEN sha ELSE calls[j].resp.sha)
        /\ sha' = HostSha(OpenedFile)'

C26_Issued == {k \in Slots : calls[k] = NoCall /\ calls'[k] # NoCall /\ calls'[k].from = "onSave"}

\* C26: Save takes the buffer as it is when Save is invoked: the body of the
\* write request is the encoding of that text; an edit of the buffer while the
\* Save is pending changes no request, so that the text the host stores is
\* the text of the moment of the Save; and the response of the Save leaves
\* the buffer, with the edits made meanwhile, as it is.
C26_SaveSnapshotsContent ==
  /\ [][\A k \in C26_Issued : fromBase64Unicode(calls'[k].body) = content]_vars
  /\ [][content' # content => \A k \in Slots : Live(k) => calls'[k] = calls[k]]_vars
  /\ [][\A k \in Slots : HostTakes(k) /\ Ok(calls'[k].resp.status)
          => remote'[calls[k].file] = fromBase64Unicode(calls[k].body)]_vars
  /\ [][\A k \in Slots : ResponseArrives(k) => content' = content]_vars

\* the buffer was emptied and saved and a text was typed while the write was
\* pending: the host has stored the empty text, the response is under way,
\* and the buffer has the text typed
C26_EditedWhileSaving ==
  \E k \in Slots :
     /\ Live(k) /\ calls[k].from = "onSave" /\ calls[k].phase = "answered"
     /\ Ok(calls[k].resp.status)
     /\ calls[k].body = toBase64Unicode(<<>>)
     /\ remote[OpenedFile] = <<>> /\ content = TextList[2]

\* ---------------------------------------------------------- the commit message
\* A message is a sequence of characters; `Update ${path}` is the word and
\* the path.
UpdatePath(p) == <<"Update ", p>>
MaxMsgLen == 2
MsgChars == {" ", "m"}
Messages == UNION {[1..n -> MsgChars] : n \in 0..MaxMsgLen}

\* onSave() called with no messageOverride
Omitted == <<"(undefined)">>

\* `(messageOverride ?? commitMsg.trim())`
GivenOrTyped(messageOverride, typed) ==
  IF messageOverride = Omitted THEN trim(typed) ELSE messageOverride

\* `(messageOverride ?? commitMsg.trim()) || `Update ${path}``
Message(messageOverride, typed, p) ==
  LET m == GivenOrTyped(messageOverride, typed)
  IN IF m = <<>> THEN UpdatePath(p) ELSE m

\* openConfirmSave, with `setCommitMsg((prev) => (prev && prev.trim()) ? prev : `Update ${path}`)`
OpenConfirmSaveMsg ==
  /\ OpenConfirmSave
  /\ commitMsg' = IF trim(commitMsg) # <<>> THEN commitMsg ELSE UpdatePath(path)
  /\ UNCHANGED sent

\* ConfirmSaveModal: the text field's onChange
SetCommitMsg(m) ==
  /\ confirmSaveOpen
  /\ commitMsg # m
  /\ commitMsg' = m
  /\ UNCHANGED <<sent, session, remote, calls>>

\* the write request of onSave(messageOverride) carries the message
OnSaveMsg(messageOverride) ==
  sent' = IF owner = "" \/ repo = "" \/ path = "" \/ ~hasToken
          THEN sent
          ELSE Message(messageOverride, commitMsg, path)

\* ConfirmSaveModal onConfirm: `onSave(commitMsg)`
ConfirmSaveMsg ==
  /\ ConfirmSave
  /\ OnSaveMsg(commitMsg)
  /\ UNCHANGED commitMsg

\* onSave() as the controller offers it, without a message
OnSaveOmitted ==
  /\ OnSave
  /\ OnSaveMsg(Omitted)
  /\ sinceOpen' = Null
  /\ UNCHANGED <<owner, repo, branch, path, content, sha, shaOf, openState,
                 hasToken, confirmSaveOpen, remote, commitMsg>>

besideMsg == <<treeVars, repoVars, dirVars, recentVars, userVars, logVars, authVars, navVars>>

NextMessage ==
  \/ Active /\ OpenConfirmSaveMsg /\ UNCHANGED besideMsg
  \/ Active /\ \E m \in Messages : SetCommitMsg(m) /\ UNCHANGED besideMsg
  \/ Active /\ ConfirmSaveMsg /\ UNCHANGED besideMsg
  \/ Active /\ OnSaveOmitted /\ UNCHANGED besideMsg
  \/ Active /\ \E v \in Paths : SetPath(v) /\ UNCHANGED aside
  \/ \E i \in Slots : HostServes(i) /\ UNCHANGED aside

SpecMessage == InitSave /\ [][NextMessage]_vars

\* C27: the commit message that Save sends is "Update " + path whenever the
\* message supplied is omitted or blank (empty or only white space), and is
\* the message supplied otherwise.
C27_DefaultWhenBlank ==
  /\ [][ConfirmSaveMsg =>
          sent' = IF trim(commitMsg) = <<>> THEN UpdatePath(path) ELSE commitMsg]_vars
  /\ [][OnSaveOmitted =>
          sent' = IF trim(commitMsg) = <<>> THEN UpdatePath(path) ELSE trim(commitMsg)]_vars

\* --------------------------------------------------------------- recent files
\* shared/recent.ts.  An entry is the file's owner, repo, branch and path; the
\* time `at` orders nothing and is left out.
RecentCap == 30

\* files opened on earlier visits, the most recent first
OldPaths == <<"f01", "f02", "f03", "f04", "f05", "f06", "f07", "f08", "f09", "f10",
              "f11", "f12", "f13", "f14", "f15", "f16", "f17", "f18", "f19", "f20",
              "f21", "f22", "f23", "f24", "f25", "f26", "f27", "f28", "f29", "f30">>
OldEntries == [k \in 1..Len(OldPaths) |-> FileKey("o1", "r1", "main", OldPaths[k])]

\* the lists found in the store when the page loads: the most recent k old
\* entries, and those lists with a.md as their oldest entry; empty, short,
\* one short of full, and full
StoredLists ==
  {SubSeq(OldEntries, 1, k) : k \in {0, 1, RecentCap - 1, RecentCap}} \cup
  {Append(SubSeq(OldEntries, 1, k), OpenedFile) : k \in {0, RecentCap - 2, RecentCap - 1}}

\* `list.unshift(...); list.slice(0, 30)` on the list as it is
addRecentFileKeepingAll(list, file) ==
  LET unshifted == <<file>> \o list
  IN SubSeq(unshifted, 1, Min(Len(unshifted), RecentCap))

\* addRecentFile(file): the list written to the store
addRecentFile(list, file) ==
  LET others == SelectSeq(list, LAMBDA f : f # file)
      unshifted == <<file>> \o others
  IN SubSeq(unshifted, 1, Min(Len(unshifted), RecentCap))

\* the response that arrives in this step ends the Open of call i with success
OpenedBy(i) == Live(i) /\ calls[i].from = "onOpen" /\ calls'[i] = Done /\ openState' = "loaded"

\* onOpen's `addRecentFile({ owner, repo, branch, path: overridePath || path })`
\* after a successful read; `try { localStorage.setItem(...) } catch {}`: the
\* store takes the list or refuses it
RecordRecent(i) ==
  IF OpenedBy(i)
  THEN recent' \in {addRecentFile(recent, calls[i].file), recent}
  ELSE recent' = recent

besideRecent == <<treeVars, repoVars, dirVars, msgVars, userVars, logVars, authVars, navVars>>

InitRecent ==
  /\ owner = "o1" /\ repo = "r1" /\ branch = "main" /\ path = ""
  /\ content = <<>> /\ sha = Null
  /\ openState = "idle" /\ saveState = "idle" /\ status = <<>>
  /\ hasToken = TRUE
  /\ confirmSaveOpen = FALSE
  /\ remote = [f \in HostedFiles |-> IF f \in ContendedFiles THEN TextList[2] ELSE OtherText]
  /\ calls = [i \in Slots |-> NoCall]
  /\ shaOf = NoKey
  /\ sinceOpen = Null
  /\ TreeInit /\ RepoInit /\ DirInit /\ MsgInit /\ UserInit /\ LogInit /\ AuthInit /\ NavInit
  /\ recent \in StoredLists

NextRecent ==
  \/ Active /\ \E p \in Paths : OnSelectFile(p) /\ UNCHANGED aside
  \/ Active /\ \E p \in Paths : OnOpenPath(p) /\ UNCHANGED aside
  \/ \E i \in Slots : HostServes(i) /\ RecordRecent(i) /\ UNCHANGED besideRecent
  \/ \E i \in Slots, st \in FailureStatuses : HostRefuses(i, st, NoHeader) /\ RecordRecent(i) /\ UNCHANGED besideRecent
  \/ \E i \in Slots : TimeoutFires(i) /\ RecordRecent(i) /\ UNCHANGED besideRecent
  \/ WaitElapses /\ UNCHANGED aside
  \/ \E i \in Slots : Retry(i) /\ UNCHANGED aside

SpecRecent == InitRecent /\ [][NextRecent]_vars

\* the entries of a list
C28_Set(list) == {list[k] : k \in 1..Len(list)}
C28_NoDuplicates(list) == \A j, k \in 1..Len(list) : list[j] = list[k] => j = k

\* a before b in list
C28_Before(list, a, b) ==
  \E j, k \in 1..Len(list) : j < k /\ list[j] = a /\ list[k] = b

\* an Open ends with success in this step, for file f
C28_Opened(f) == \E i \in Slots : OpenedBy(i) /\ calls[i].file = f

\* C28 as stated: every successful Open records its file and a failed Open
\* records nothing; the list has one entry per file, the file opened last
\* first and the others in their order, and no entry once recorded is dropped.
C28_AppendOnly ==
  /\ [](C28_NoDuplicates(recent))
  /\ [][\A f \in HostedFiles : C28_Opened(f) =>
          /\ recent' # <<>> /\ recent'[1] = f
          /\ C28_Set(recent') = C28_Set(recent) \cup {f}
          /\ \A a, b \in C28_Set(recent) \ {f} :
                C28_Before(recent, a, b) => C28_Before(recent', a, b)]_vars
  /\ [][(~\E f \in HostedFiles : C28_Opened(f)) => recent' = recent]_vars

\* C28, amended: the list holds at most RecentCap entries; a successful Open
\* puts its file first and keeps the others in their order, as many of
\* them as there is room for, the oldest being dropped, unless the store
\* refuses the write, which leaves the list as it was.
C28_MostRecentCapped ==
  /\ [](C28_NoDuplicates(recent) /\ Len(recent) <= RecentCap)
  /\ [][\A f \in HostedFiles : C28_Opened(f) =>
          \/ recent' = recent
          \/ /\ recent'[1] = f
             /\ C28_Set(recent) \cap {f} = {} /\ Len(recent) = RecentCap
                  => C28_Set(recent') = (C28_Set(recent) \ {recent[RecentCap]}) \cup {f}
             /\ C28_Set(recent) \cap {f} # {} \/ Len(recent) < RecentCap
                  => C28_Set(recent') = C28_Set(recent) \cup {f}
             /\ LET others == SelectSeq(recent, LAMBDA e : e # f)
                IN \A k \in 2..Len(recent') : recent'[k] = others[k - 1]]_vars
  /\ [][(~\E f \in HostedFiles : C28_Opened(f)) => recent' = recent]_vars

\* README.md was opened with a full list stored: it is the first entry and
\* the oldest entry has gone
C28_OldestDropped ==
  /\ openState = "loaded"
  /\ Len(recent) = RecentCap
  /\ recent[1] = FileKey("o1", "r1", "main", "README.md")
  /\ recent[RecentCap] = OldEntries[RecentCap - 1]

\* ------------------------------------------------- the credential (refreshUser)
\* clearToken(): sessionStorage.removeItem('gh_access_token')
StoredKept(t) == t

StoredAfterClear(t) == FALSE

beyondUser == <<treeVars, repoVars, dirVars, msgVars, recentVars, logVars, authVars, navVars>>

\* the effect on refreshUser: it runs on mount and whenever tokenPresent changes
RefreshUser ==
  /\ \/ hasToken /\ userState = "idle" /\ asking = "none"
     \/ ~hasToken /\ userState # "idle"
  /\ IF ~hasToken
     THEN userState' = "idle" /\ UNCHANGED asking
     ELSE userState' = "loading" /\ asking' = "getMe"
  /\ UNCHANGED <<session, remote, calls, beyondUser>>

\* getMe() resolves; listEditableRepos(30) follows, and githubFetch throws before
\* any request when the credential is gone
GetMeSucceeds ==
  /\ asking = "getMe"
  /\ userState' = "loaded"
  /\ status' = <<"Welcome">>
  /\ asking' = IF hasToken THEN "repos" ELSE "none"
  /\ UNCHANGED <<owner, repo, branch, path, content, sha, openState, saveState,
                 hasToken, confirmSaveOpen, shaOf, sinceOpen, remote, calls, beyondUser>>

\* getMe() throws (a status that is not ok, a rejected fetch, a timeout): the
\* outer catch of refreshUser
GetMeFails ==
  /\ asking = "getMe"
  /\ userState' = "error"
  /\ status' = <<"Login error. Please login again.">>
  /\ hasToken' = StoredAfterClear(hasToken)
  /\ asking' = "none"
  /\ UNCHANGED <<owner, repo, branch, path, content, sha, openState, saveState,
                 confirmSaveOpen, shaOf, sinceOpen, remote, calls, beyondUser>>

\* listEditableRepos(30) settles either way: the list is kept or the inner catch
\* logs the error
ReposSettle ==
  /\ asking = "repos"
  /\ asking' = "none"
  /\ UNCHANGED <<userState, session, remote, calls, beyondUser>>

\* the page after mount, with a stored credential and a repository selected
InitIdentity ==
  /\ owner = "o1" /\ repo = "r1" /\ branch = "main" /\ path = ""
  /\ content = <<>> /\ sha = Null
  /\ openState = "idle" /\ saveState = "idle" /\ status = <<>>
  /\ hasToken = TRUE
  /\ confirmSaveOpen = FALSE
  /\ remote = [f \in HostedFiles |-> IF f \in ContendedFiles THEN TextList[2] ELSE <<>>]
  /\ calls = [i \in Slots |-> NoCall]
  /\ shaOf = NoKey
  /\ sinceOpen = Null
  /\ AsideInit

NextIdentity ==
  \/ RefreshUser
  \/ GetMeSucceeds
  \/ GetMeFails
  \/ ReposSettle
  \/ Active /\ OnLogout /\ UNCHANGED aside
  \/ Active /\ \E p \in Paths : OnOpenPath(p) /\ UNCHANGED aside
  \/ Active /\ OpenConfirmSave /\ UNCHANGED aside
  \/ Active /\ ConfirmSave /\ UNCHANGED aside
  \/ Active /\ \E p \in Paths : OnCreate(p) /\ UNCHANGED aside
  \/ Active /\ \E p \in Paths : OnDelete(p) /\ UNCHANGED aside
  \/ Network(SessionHeaders)

SpecIdentity == InitIdentity /\ [][NextIdentity]_vars

\* an operation issues a request in this step
C29_Issues(i) == calls[i] = NoCall /\ calls'[i] # NoCall

C29_Cleared ==
  /\ [][OnLogout => ~hasToken']_vars
  /\ [][GetMeFails => ~hasToken']_vars
  /\ [][~hasToken => ~hasToken']_vars

C29_FailsBeforeAnyCall ==
  /\ [][~hasToken => /\ \A i \in Slots : ~C29_Issues(i)
                     /\ asking' \in {asking, "none"}]_vars
  /\ [][~hasToken /\ (\E p \in Paths : OnOpenPath(p))
          => openState' = "error" /\ status' = <<"Open failed", "Missing access token">>]_vars
  /\ [][~hasToken /\ ConfirmSave /\ path # ""
          => saveState' = "error" /\ status' = <<"Save failed", "Missing access token">>]_vars

JsUndefined == [t |-> "undefined"]
JsNull == [t |-> "null"]
Str(s) == [t |-> "string", s |-> <<s>>]
Num(n) == [t |-> "number", s |-> <<n>>]
Bool(b) == [t |-> "boolean", s |-> <<b>>]
Fn(name) == [t |-> "function", s |-> <<name>>]
Ref(id) == [t |-> "object", id |-> id]

\* heap nodes: a plain object (its entries in insertion order), an array, an Error
Obj(entries) == [c |-> "Object", entries |-> entries]
Arr(items) == [c |-> "Array", items |-> items]
Err(message, stack, entries) ==
  [c |-> "Error", name |-> Str("Error"), message |-> message, stack |-> stack,
   entries |-> entries]

\* what the serializer and JSON.stringify build: trees
OutObj(entries) == [t |-> "object", o |-> entries]
OutArr(items) == [t |-> "array", a |-> items]

Redacted == Str("[REDACTED]")

\* redactValue
redactValueKeeping(value) == value

redactValue(value) ==
  IF value.t = "undefined" THEN value
  ELSE IF value.t = "null" THEN JsNull
  ELSE Redacted

REDACT_KEYS ==
  << <<"a","u","t","h","o","r","i","z","a","t","i","o","n">>,
     <<"c","o","o","k","i","e">>,
     <<"s","e","t","-","c","o","o","k","i","e">>,
     <<"t","o","k","e","n">>,
     <<"a","c","c","e","s","s","_","t","o","k","e","n">>,
     <<"r","e","f","r","e","s","h","_","t","o","k","e","n">>,
     <<"c","l","i","e","n","t","_","s","e","c","r","e","t">>,
     <<"s","e","c","r","e","t">>,
     <<"p","a","s","s","w","o","r","d">>,
     <<"k","e","y">> >>

shouldRedactKey(key) ==
  LET lowerKey == toLowerCase(key)
  IN \E k \in DOMAIN REDACT_KEYS : includes(lowerKey, REDACT_KEYS[k])

DepthLimit == 5
ArrayCap == 50

KeyName == <<"n","a","m","e">>
KeyMessage == <<"m","e","s","s","a","g","e">>
KeyStack == <<"s","t","a","c","k">>
KeyReq == <<"r","e","q">>
KeyRes == <<"r","e","s">>
KeyRequest == <<"r","e","q","u","e","s","t">>
KeyResponse == <<"r","e","s","p","o","n","s","e">>
KeyTime == <<"t","i","m","e">>
KeyLevel == <<"l","e","v","e","l">>
KeyMsg == <<"m","s","g">>

\* serializeError(err) for an Error
serializeError(err, production) ==
  OutObj(<< <<KeyName, err.name>>, <<KeyMessage, err.message>>,
            <<KeyStack, IF production THEN JsUndefined ELSE err.stack>> >>)

\* safeSerialize(input, depth, seen) over the heap h: the value built, and `seen`
\* as the call leaves it (the WeakSet is shared by the whole traversal)
RECURSIVE safeSerialize(_, _, _, _, _)
RECURSIVE serializeItems(_, _, _, _, _, _)
RECURSIVE serializeEntries(_, _, _, _, _, _)
safeSerialize(h, production, input, depth, seen) ==
  IF input.t = "null" \/ input.t = "undefined" THEN [out |-> input, seen |-> seen]
  ELSE IF depth > DepthLimit THEN [out |-> Str("[depth_limit]"), seen |-> seen]
  ELSE IF input.t = "function"
       THEN [out |-> [t |-> "string", s |-> <<"[function ">> \o input.s \o <<"]">>],
             seen |-> seen]
  ELSE IF input.t # "object" THEN [out |-> input, seen |-> seen]
  ELSE IF input.id \in seen THEN [out |-> Str("[circular]"), seen |-> seen]
  ELSE LET node == h[input.id]
           seen1 == seen \cup {input.id}
       IN IF node.c = "Array"
          THEN LET r == serializeItems(h, production,
                                       SubSeq(node.items, 1, Min(Len(node.items), ArrayCap)),
                                       depth + 1, seen1, <<>>)
               IN [out |-> OutArr(r.out), seen |-> r.seen]
          ELSE IF node.c = "Error"
               THEN [out |-> serializeError(node, production), seen |-> seen1]
               ELSE LET r == serializeEntries(h, production, node.entries, depth,
                                              seen1, <<>>)
                    IN [out |-> OutObj(r.out), seen |-> r.seen]

\* input.slice(0, 50).map((item) => safeSerialize(item, depth + 1, seen))
serializeItems(h, production, items, depth, seen, acc) ==
  IF items = <<>> THEN [out |-> acc, seen |-> seen]
  ELSE LET r == safeSerialize(h, production, Head(items), depth, seen)
       IN serializeItems(h, production, Tail(items), depth, r.seen, Append(acc, r.out))

\* the loop over Object.entries(input)
serializeEntries(h, production, entries, depth, seen, acc) ==
  IF entries = <<>> THEN [out |-> acc, seen |-> seen]
  ELSE LET key == Head(entries)[1]
           value == Head(entries)[2]
       IN IF shouldRedactKey(key)
          THEN serializeEntries(h, production, Tail(entries), depth, seen,
                                Append(acc, <<key, redactValue(value)>>))
          ELSE IF key \in {KeyReq, KeyRes, KeyRequest, KeyResponse}
               THEN serializeEntries(h, production, Tail(entries), depth, seen,
                                     Append(acc, <<key, Str("[omitted]")>>))
               ELSE LET r == safeSerialize(h, production, value, depth + 1, seen)
                    IN serializeEntries(h, production, Tail(entries), depth, r.seen,
                                        Append(acc, <<key, r.out>>))

\* object entries by key
HasKey(entries, key) == \E k \in DOMAIN entries : entries[k][1] = key
Get(entries, key) == entries[CHOOSE k \in DOMAIN entries : entries[k][1] = key][2]

\* { ...a, ...b }: a key of b replaces the value where a has it, and is added
\* at the end where a has not
RECURSIVE SpreadOver(_, _)
SpreadOver(a, b) ==
  IF b = <<>> THEN a
  ELSE LET key == Head(b)[1]
           a1 == IF HasKey(a, key)
                 THEN [k \in DOMAIN a |-> IF a[k][1] = key THEN Head(b) ELSE a[k]]
                 ELSE Append(a, Head(b))
       IN SpreadOver(a1, Tail(b))

\* the own enumerable properties a spread copies: the entries of an object, the
\* items of an array under their indices, nothing of null, undefined, a number
\* or a boolean
Digits == <<"0", "1", "2", "3", "4", "5", "6", "7", "8", "9">>
RECURSIVE IndexKey(_)
IndexKey(n) ==
  IF n < Len(Digits) THEN <<Digits[n + 1]>>
  ELSE IndexKey(n \div Len(Digits)) \o <<Digits[(n % Len(Digits)) + 1]>>
Spreadable(out) ==
  IF out.t = "object" THEN out.o
  ELSE IF out.t = "array" THEN [k \in DOMAIN out.a |-> <<IndexKey(k - 1), out.a[k]>>]
  ELSE <<>>

\* JSON.stringify: a property whose value is undefined is left out, an undefined
\* array item is written as null
RECURSIVE stringify(_)
RECURSIVE stringifyEntries(_)
stringify(out) ==
  IF out.t = "object" THEN OutObj(stringifyEntries(out.o))
  ELSE IF out.t = "array"
       THEN OutArr([k \in DOMAIN out.a |->
                      IF out.a[k].t = "undefined" THEN JsNull ELSE stringify(out.a[k])])
       ELSE out

stringifyEntries(entries) ==
  IF entries = <<>> THEN <<>>
  ELSE IF Head(entries)[2].t = "undefined" THEN stringifyEntries(Tail(entries))
       ELSE <<<<Head(entries)[1], stringify(Head(entries)[2])>>>>
            \o stringifyEntries(Tail(entries))

LOG_LEVELS == [trace |-> 10, debug |-> 20, info |-> 30, warn |-> 40, error |-> 50]
Levels == DOMAIN LOG_LEVELS

\* LOG_LEVEL is not set: 'info'
CURRENT_LEVEL_NUM == LOG_LEVELS["info"]

shouldLog(level) == LOG_LEVELS[level] >= CURRENT_LEVEL_NUM

\* the entry log(level, message, meta) builds, and the line it writes
logEntry(level, message, m) ==
  OutObj(SpreadOver(<< <<KeyTime, Str("now")>>, <<KeyLevel, Str(level)>>,
                       <<KeyMsg, Str(message)>> >>,
                    Spreadable(safeSerialize(m.heap, m.production, m.root, 0, {}).out)))

log(level, message, m) == stringify(logEntry(level, message, m))

\* the metadata objects handed to the logger: a sensitive field with each kind
\* of value, alone and inside every kind of container the serializer treats
KeyAuthorization == <<"A","u","t","h","o","r","i","z","a","t","i","o","n">>
KeyDBkey == <<"D","B","k","e","y">>
KeyToken == <<"t","o","k","e","n">>
KeyUser == <<"u","s","e","r">>
KeyData == <<"d","a","t","a">>
KeyCopy == <<"c","o","p","y">>
KeySelf == <<"s","e","l","f">>
KeyCb == <<"c","b">>
SensitiveKeys == {KeyAuthorization, KeyDBkey, KeyToken}

\* the value no log line may show
Secret == "s3cr3t"
SensitiveLeaves == {Str(Secret), Num(Secret), Bool(Secret), JsNull, JsUndefined}

Meta(heap, r) == [heap |-> heap, root |-> r, production |-> FALSE]
Grown(m, node) == [m EXCEPT !.heap = Append(m.heap, node), !.root = Ref(Len(m.heap) + 1)]

\* { user: 'u', <key>: <leaf> }
Flat(key, leaf) == Meta(<<Obj(<< <<KeyUser, Str("u")>>, <<key, leaf>> >>)>>, Ref(1))
\* { <key>: { user: Secret } } and { <key>: [Secret] }
Holding(key, node) == Meta(<<Obj(<< <<key, Ref(2)>> >>), node>>, Ref(1))

BaseMetas ==
  {Flat(key, leaf) : key \in SensitiveKeys, leaf \in SensitiveLeaves}
  \cup {Holding(key, node) : key \in SensitiveKeys,
                             node \in {Obj(<< <<KeyUser, Str(Secret)>> >>),
                                       Arr(<<Str(Secret)>>)}}

\* { data: m }, n times
MaxNest == 7
RECURSIVE Nested(_, _)
Nested(m, n) == IF n = 0 THEN m ELSE Nested(Grown(m, Obj(<< <<KeyData, m.root>> >>)), n - 1)

InArray(m) ==
  LET a == Grown(m, Arr(<<Str("x"), m.root, JsUndefined>>))
  IN Grown(a, Obj(<< <<KeyData, a.root>> >>))
UnderReq(m) == Grown(m, Obj(<< <<KeyReq, m.root>> >>))
Twice(m) == Grown(m, Obj(<< <<KeyData, m.root>>, <<KeyCopy, m.root>> >>))
Cyclic(m) == Grown(m, Obj(<< <<KeySelf, Ref(Len(m.heap) + 1)>>, <<KeyData, m.root>> >>))
PastCap(m) ==
  LET a == Grown(m, Arr([k \in 1..ArrayCap |-> Str("x")] \o <<m.root>>))
  IN Grown(a, Obj(<< <<KeyData, a.root>> >>))
WithCallback(m) == Grown(m, Obj(<< <<KeyData, m.root>>, <<KeyCb, Fn("cb")>> >>))
\* { error: <Error with the fields of m as own properties> }
InError(m, production) ==
  [Grown(m, Err(Str("boom"), Str("at x"), m.heap[m.root.id].entries))
     EXCEPT !.production = production]
WithMsg(m) == Grown(m, Obj(<< <<KeyData, m.root>>, <<KeyMsg, Str("mine")>> >>))

Metas ==
  UNION {{Nested(m, n) : n \in 0..MaxNest}
         \cup {InArray(m), UnderReq(m), Twice(m), Cyclic(m), PastCap(m),
               WithCallback(m), WithMsg(m)}
         \cup {InError(m, production) : production \in BOOLEAN}
         : m \in BaseMetas}
  \cup {Meta(<<>>, JsUndefined), Meta(<<>>, JsNull)}

\* logger.info(message, meta) and its siblings
Log(level) ==
  /\ stdout = <<>>
  /\ stdout' = IF shouldLog(level) THEN <<log(level, "event", logMeta)>> ELSE stdout
  /\ UNCHANGED <<logMeta, session, remote, calls, treeVars, navVars, authVars, repoVars, dirVars,
                 msgVars, recentVars, userVars>>

InitLogger ==
  /\ Idle
  /\ TreeInit /\ RepoInit /\ DirInit /\ MsgInit /\ RecentInit /\ UserInit /\ AuthInit /\ NavInit
  /\ logMeta \in Metas
  /\ stdout = <<>>

NextLogger == \E level \in Levels : Log(level)

SpecLogger == InitLogger /\ [][NextLogger]_vars

IsRedacted(v) == v.t = "string" /\ v.s = <<"[REDACTED]">>

\* the written value shows s somewhere
RECURSIVE Shows(_, _)
Shows(out, s) ==
  IF out.t = "object" THEN \E k \in DOMAIN out.o : Shows(out.o[k][2], s)
  ELSE IF out.t = "array" THEN \E k \in DOMAIN out.a : Shows(out.a[k], s)
  ELSE IF out.t \in {"null", "undefined"} THEN FALSE
  ELSE \E k \in DOMAIN out.s : out.s[k] = s

\* a field with a sensitive name is written with a value of its own
RECURSIVE ShowsSensitiveField(_)
ShowsSensitiveField(out) ==
  IF out.t = "object"
  THEN \E k \in DOMAIN out.o :
         \/ shouldRedactKey(out.o[k][1]) /\ ~IsRedacted(out.o[k][2]) /\ out.o[k][2].t # "null"
         \/ ShowsSensitiveField(out.o[k][2])
  ELSE IF out.t = "array" THEN \E k \in DOMAIN out.a : ShowsSensitiveField(out.a[k])
  ELSE FALSE

\* the fields of a logged value, level by level, against the written value:
\* every field with a sensitive name is written as "[REDACTED]"
WalkDepth == MaxNest + 3
RECURSIVE C30_AllRedacted(_, _, _, _)
C30_AllRedacted(h, value, out, fuel) ==
  IF fuel = 0 \/ value.t # "object" THEN TRUE
  ELSE LET node == h[value.id]
       IN IF node.c = "Array"
          THEN /\ out.t = "array"
               /\ Len(out.a) = Len(node.items)
               /\ \A k \in DOMAIN node.items :
                    C30_AllRedacted(h, node.items[k], out.a[k], fuel - 1)
          ELSE /\ out.t = "object"
               /\ \A k \in DOMAIN node.entries :
                    LET key == node.entries[k][1]
                    IN /\ HasKey(out.o, key)
                       /\ IF shouldRedactKey(key)
                          THEN IsRedacted(Get(out.o, key))
                          ELSE C30_AllRedacted(h, node.entries[k][2], Get(out.o, key),
                                               fuel - 1)

\* the same walk over what the serializer visits: objects down to the depth
\* limit, met for the first time, outside req / res / request / response and
\* outside Error objects, array items up to the cap; a sensitive field holding
\* null or undefined is left aside
RECURSIVE C30_VisitedRedacted(_, _, _, _)
C30_VisitedRedacted(h, value, out, depth) ==
  IF depth > DepthLimit \/ value.t # "object" THEN TRUE
  ELSE LET node == h[value.id]
       IN IF node.c = "Error" THEN TRUE
          ELSE IF node.c = "Array"
          THEN /\ out.t = "array"
               /\ \A k \in 1..Min(Len(node.items), ArrayCap) :
                    C30_VisitedRedacted(h, node.items[k], out.a[k], depth + 1)
          ELSE /\ out.t = "object"
               /\ \A k \in DOMAIN node.entries :
                    LET key == node.entries[k][1]
                        v == node.entries[k][2]
                    IN IF shouldRedactKey(key)
                       THEN v.t \notin {"null", "undefined"}
                              => HasKey(out.o, key) /\ IsRedacted(Get(out.o, key))
                       ELSE IF key \in {KeyReq, KeyRes, KeyRequest, KeyResponse}
                               \/ v.t \in {"null", "undefined"}
                            THEN TRUE
                            ELSE /\ HasKey(out.o, key)
                                 /\ C30_VisitedRedacted(h, v, Get(out.o, key), depth + 1)

\* no object of the heap is referenced twice, the reference logged counted
C30_Tree(m) ==
  \A id \in DOMAIN m.heap :
    (IF m.root.t = "object" /\ m.root.id = id THEN 1 ELSE 0) +
    Cardinality({<<n, k>> \in (DOMAIN m.heap) \X (1..(ArrayCap + 1)) :
                   LET node == m.heap[n]
                       vals == IF node.c = "Array" THEN node.items
                               ELSE [j \in DOMAIN node.entries |-> node.entries[j][2]]
                   IN k \in DOMAIN vals /\ vals[k].t = "object" /\ vals[k].id = id}) <= 1

\* C30 as stated: every field of the logged object whose lower-cased name
\* contains a sensitive key name is written as "[REDACTED]", at every nesting
\* level, and no line shows the value it held
C30_EveryFieldRedacted ==
  \A k \in DOMAIN stdout :
    /\ C30_AllRedacted(logMeta.heap, logMeta.root, stdout[k], WalkDepth)
    /\ ~Shows(stdout[k], Secret)

\* C30, amended: no line shows the value of a field with a sensitive name, and
\* no line has such a field with a value other than "[REDACTED]" or null; every
\* such field the serializer visits is written as "[REDACTED]" unless it holds
\* null (written as null) or undefined (left out)
C30_NoSensitiveValueWritten ==
  \A k \in DOMAIN stdout :
    /\ ~Shows(stdout[k], Secret)
    /\ ~ShowsSensitiveField(stdout[k])
    /\ C30_Tree(logMeta)
         => C30_VisitedRedacted(logMeta.heap, logMeta.root, stdout[k], 0)

\* { data: { data: { user: 'u', DBkey: Secret } } } was logged, and the line has
\* "[REDACTED]" in the place of the value
C30_NestedFieldRedacted ==
  /\ logMeta = Nested(Flat(KeyDBkey, Str(Secret)), 2)
  /\ Len(stdout) = 1
  /\ LET inner == Get(Get(stdout[1].o, KeyData).o, KeyData)
     IN /\ Get(inner.o, KeyDBkey) = Redacted
        /\ Get(inner.o, KeyUser) = Str("u")

\* --------------------------------------- FileTree across repository contexts
\* the repositories typed, one after another
SwitchRepos == {"r1", "r2"}

NextSwitch ==
  \/ \E v \in SwitchRepos : SetRepoTree(v)
  \/ LET shown == visibleTree IN \E p \in Rendered(shown) : OnToggle(shown, p)
  \/ \E k \in 1..MaxListings : ListingResolves(k)
  \/ \E k \in 1..MaxListings : ListingFails(k)

SpecSwitch == InitTree /\ [][NextSwitch]_vars

\* the paths the host lists at the root of a context
C31_RootEntries(ctx) ==
  {HostDirectories[ctx][""][k].path : k \in DOMAIN HostDirectories[ctx][""]}

\* C31: after a change of the context the tree holds no children listed from
\* the previous context: the children of the root are entries of the root
\* directory of the context that is current, also when a listing requested
\* under the previous context answers after the reset.
C31_ChildrenOfCurrentContext ==
  Shown(owner, repo) =>
    \A k \in DOMAIN ChildrenOrNone(root) :
      root.children[k].path \in C31_RootEntries(<<owner, repo, branch>>)

\* ------------------------------------------------- responses after a logout
\* the response of the pending call i is handled in this step
C32_Returns(i) == Live(i) /\ calls'[i] = Done

\* C32: once Logout has run the session stays cleared: the response to an Open
\* or a Save that was in flight at the logout leaves the content, the held
\* token and the load state as the logout set them.
C32_LogoutStaysCleared ==
  [][~hasToken /\ (\E i \in Slots : C32_Returns(i))
       => content' = content /\ sha' = sha /\ openState' = openState]_vars

\* ---------------------------------------------- recent files in the palette
\* C33: choosing a recent-file entry in the command palette issues the read
\* against the entry's own owner, repo and branch, not against the context
\* that was current before the selection.
C33_ReadsTheEntry ==
  [][\A f \in HostedFiles :
       hasToken /\ OnOpenFile(f)
         => \E i \in Slots : /\ calls[i] = NoCall
                             /\ calls'[i] # NoCall
                             /\ calls'[i].kind = "getFile"
                             /\ calls'[i].file = f]_vars

\* ------------------------------------------------- Save around a failed Open
\* the Save of this step issues a create request: it carries no token
C34_CreatesBySave(i) ==
  calls[i] = NoCall /\ calls'[i] # NoCall /\ calls'[i].from = "onSave"
  /\ calls'[i].kind = "createFile"

\* C34: a Save invoked while an Open is in flight, or after an Open has
\* failed, issues no create request for the file that was being opened.
C34_NoCreateAroundOpen ==
  [][\A i \in Slots : C34_CreatesBySave(i) => openState \notin {"loading", "error"}]_vars

\* ------------------------------------------------------ after a file is created
\* the create request of the dialog is answered in this step and the host has
\* created the file
C35_Created(i) ==
  /\ Live(i) /\ calls[i].from = "onCreate" /\ calls'[i] = Done
  /\ remote[calls[i].file] = NoFile /\ remote'[calls[i].file] # NoFile

\* C35: after the create-file dialog has created a file, the session's path is
\* the new file's path and the session holds the version token of the create
\* response, so that the next Save is an update carrying it.
C35_HoldsTokenOfCreated ==
  [][\A i \in Slots :
       C35_Created(i) => /\ path' = calls[i].file[4]
                         /\ sha' = BlobSha(remote'[calls[i].file])
                         /\ ~UseCreate(sha')]_vars

\* ------------------------------------------------------- Open of an empty file
\* C36: a file that exists on the host with empty content can be opened: when
\* the host serves its read, Open ends with loadState loaded, content "" and
\* the file's version token held, not with loadState error.
C36_EmptyFileOpens ==
  [][\A i \in Slots :
       HostServes(i) /\ calls[i].from = "onOpen" /\ remote[calls[i].file] = <<>>
         => /\ openState' = "loaded"
            /\ content' = <<>>
            /\ sha' = BlobSha(<<>>)]_vars

\* ---------------------------------------------------------------------
\* A directory whose listing failed
\* ---------------------------------------------------------------------

\* the tree value t with the children, loaded and expanded fields of the node
\* of path p left out of the comparison
RECURSIVE C37_Beside(_, _)
C37_Beside(t, p) ==
  IF t.path = p THEN Merge(t, [children |-> <<>>, loaded |-> FALSE, expanded |-> FALSE])
  ELSE IF ~HasChildren(t) THEN t
  ELSE [t EXCEPT !.children = [i \in DOMAIN t.children |-> C37_Beside(t.children[i], p)]]

\* the catch branch makes the node loaded with no children and leaves the
\* other nodes as they are
C37_FailureMarksLoaded ==
  [][\A k \in 1..MaxListings :
        ListingFails(k) /\ findNode(root, listings[k].path) # <<>>
          => LET p == listings[k].path
                 n == findNode(root', p)[1]
             IN /\ n.loaded /\ HasChildren(n) /\ n.children = <<>>
                /\ C37_Beside(root', p) = C37_Beside(root, p)]_vars

\* an expansion lists no directory whose listing has failed in this context
C37_NoListingAfterFailure ==
  [][\A p \in DirPaths :
        OnToggle(visibleTree, p) /\ listed'[p] > listed[p]
          => p \notin failedDirs]_vars

\* C37: when listDirectory fails for a directory node, the node becomes
\* loaded with an empty children list, the rest of the tree is unchanged, and
\* no later expansion of that node within the same repository context issues
\* the listing again.
C37_FailedNodeStaysLoaded == C37_FailureMarksLoaded /\ C37_NoListingAfterFailure

\* ---------------------------------------------------------------------
\* Opens and Saves come to an end
\* ---------------------------------------------------------------------

\* one attempt of request i yields a response, a transport error or a timeout
Attempt(i) ==
  \/ HostServes(i) /\ UNCHANGED aside
  \/ HostGarbles(i) /\ UNCHANGED aside
  \/ \E st \in FailureStatuses, h \in SessionHeaders : HostRefuses(i, st, h) /\ UNCHANGED aside
  \/ TimeoutFires(i) /\ UNCHANGED aside

\* an attempt of request i is pending: the state in which Attempt(i) is enabled
Fetching(i) == Live(i) /\ calls[i].phase = "fetch"

\* Every attempt comes to an end and every timer of a retry delay fires.  The
\* first conjunct is WF_vars(Attempt(i)) with ENABLED <<Attempt(i)>>_vars
\* written as the state predicate Fetching(i).
FairNetwork ==
  /\ \A i \in Slots : []<>(~Fetching(i)) \/ []<><<Attempt(i)>>_vars
  /\ \A i \in Slots : WF_vars(Retry(i) /\ UNCHANGED aside)
  /\ WF_vars(WaitElapses /\ UNCHANGED aside)

\* the opened file is saved, opened again and deleted, and the user logs out,
\* in any order and with requests overlapping
NextSettle ==
  \/ Active /\ OpenConfirmSave /\ UNCHANGED aside
  \/ Active /\ ConfirmSave /\ UNCHANGED aside
  \/ Active /\ \E p \in Paths : OnOpenPath(p) /\ UNCHANGED aside
  \/ Active /\ \E p \in Paths : OnDelete(p) /\ UNCHANGED aside
  \/ Active /\ OnLogout /\ UNCHANGED aside
  \/ Network(SessionHeaders)

SpecSettle == InitSave /\ [][NextSettle]_vars /\ FairNetwork

\* openState or saveState is loading only while a request of onOpen or of
\* onSave is pending
C38_LoadingHasRequest ==
  /\ openState = "loading" => OpenCalls # {}
  /\ saveState = "loading" => SaveCalls # {}

\* C38: every Open and every Save that enters the loading state leaves it:
\* when every request attempt ends with a response, a transport error or a
\* timeout, openState and saveState each become loaded or error, or idle
\* after a logout or a delete, whatever operations overlap.
C38_LoadingEnds ==
  /\ (openState = "loading") ~> (openState \in {"loaded", "error", "idle"})
  /\ (saveState = "loading") ~> (saveState \in {"loaded", "error", "idle"})

\* an Open and a Save were pending together and both have ended in an error
C38_BothSettled ==
  /\ \A i \in Slots : calls[i] = Done
  /\ openState = "error" /\ saveState = "error"

\* ---------------------------------------------------------------------
\* The OAuth callback of the server
\* ---------------------------------------------------------------------

\* a query parameter given more than once, or a cookie of the form j:[...]
List(items) == [t |-> "array", items |-> items]

\* `!v` for the values of a query parameter, a cookie or a JSON field
Not(v) == v.t \in {"undefined", "null"} \/ (v.t = "string" /\ v.s = << <<>> >>)

\* `a !== b`: strings are compared by value, objects by identity, and a value
\* of the query is never the object that the cookie parser made
StrictlyUnequal(a, b) == ~(a.t = b.t /\ a.t \in {"undefined", "null", "string"} /\ a = b)

\* the state check without the cookie
StateInvalidWithoutCookie(code, state, stateCookie) == Not(code) \/ Not(state)

\* `!code || !state || !stateCookie || stateCookie !== state`
StateInvalid(code, state, stateCookie) ==
  Not(code) \/ Not(state) \/ Not(stateCookie) \/ StrictlyUnequal(stateCookie, state)

\* `crypto.randomBytes(16).toString('hex')`: the values it can give
StateValues == {<<"s", "1">>, <<"s", "2">>}

\* what a client can send as code, as state and as the oauth_state cookie
Codes == {JsUndefined, Str(<<>>), Str(<<"c">>), List(<<"c", "d">>)}
States == {JsUndefined, Str(<<>>), List(<<"s", "1">>)} \cup {Str(s) : s \in StateValues}
Cookies == {JsUndefined, Str(<<>>), List(<<"s", "1">>)} \cup {Str(s) : s \in StateValues}

\* encodeURIComponent on the characters of the tokens: "&" is escaped
RECURSIVE encodeURIComponent(_)
encodeURIComponent(s) ==
  IF s = <<>> THEN <<>>
  ELSE (IF Head(s) = "&" THEN <<"%", "2", "6">> ELSE <<Head(s)>>) \o encodeURIComponent(Tail(s))

\* What the token endpoint can answer: the fetch rejects; a status that is
\* not ok; a JSON body that is null; a JSON or form-encoded body with or
\* without an access_token field.
AccessTokens == {JsUndefined, Str(<<>>), Str(<<"t", "1">>), Str(<<"t", "&">>)}
TokenResponses ==
  {[kind |-> "rejects"], [kind |-> "status"], [kind |-> "null"]}
  \cup {[kind |-> "fields", access_token |-> a] : a \in AccessTokens}

Replied(st, hash) == [status |-> st, hash |-> hash]

beyondAuth == <<session, remote, calls, treeVars, repoVars, dirVars, msgVars, recentVars,
                userVars, logVars, navVars>>

\* GET /api/auth/login: the browser is given the oauth_state cookie
Login(s) ==
  /\ jar # Str(s)
  /\ jar' = Str(s)
  /\ UNCHANGED <<cb, contacted, reply, beyondAuth>>

\* GET /api/auth/callback up to the request to the token endpoint
CallbackArrives(code, state, stateCookie) ==
  /\ cb.phase # "exchange"
  /\ IF StateInvalid(code, state, stateCookie)
     THEN /\ cb' = [phase |-> "replied", code |-> code, state |-> state, stateCookie |-> stateCookie]
          /\ contacted' = <<>>
          /\ reply' = Replied(400, <<>>)
     ELSE /\ cb' = [phase |-> "exchange", code |-> code, state |-> state, stateCookie |-> stateCookie]
          /\ contacted' = <<code>>
          /\ reply' = NoReply
  /\ UNCHANGED <<jar, beyondAuth>>

\* the response of the handler after `await fetch(...)` of the token endpoint
CallbackReply(tokenRes) ==
  CASE tokenRes.kind = "rejects" -> Replied(500, <<>>)
    [] tokenRes.kind = "status" -> Replied(502, <<>>)
    [] tokenRes.kind = "null" -> Replied(500, <<>>)
    [] OTHER -> IF Not(tokenRes.access_token) THEN Replied(502, <<>>)
                ELSE Replied(302, <<"access_token=">> \o encodeURIComponent(tokenRes.access_token.s[1]))

\* GET /api/auth/callback after the token endpoint has answered; a redirect
\* clears the cookie
ExchangeEnds(tokenRes) ==
  /\ cb.phase = "exchange"
  /\ cb' = [cb EXCEPT !.phase = "replied"]
  /\ reply' = CallbackReply(tokenRes)
  /\ jar' = IF reply'.status = 302 THEN JsUndefined ELSE jar
  /\ UNCHANGED <<contacted, beyondAuth>>

InitAuth == Idle /\ AsideInit

NextAuth ==
  \/ \E s \in StateValues : Login(s)
  \/ \E code \in Codes, state \in States, stateCookie \in Cookies \cup {jar} :
       CallbackArrives(code, state, stateCookie)
  \/ \E tokenRes \in TokenResponses : ExchangeEnds(tokenRes)

SpecAuth == InitAuth /\ [][NextAuth]_vars

\* the request has the parameter or the cookie
C39_Present(v) == v # JsUndefined
C39_Matching(c) ==
  /\ C39_Present(c.code) /\ C39_Present(c.state) /\ C39_Present(c.stateCookie)
  /\ c.stateCookie = c.state
C39_EmitsToken == reply.hash # <<>>

\* C39: the callback contacts the token endpoint and redirects with an access
\* token only when the code, the state parameter and the oauth_state cookie
\* are all present and the cookie equals the state parameter; in every other
\* case it responds 400, does not contact the token endpoint and emits no
\* token.
C39_ExchangeOnlyForMatchingState ==
  cb.phase # "none" =>
    /\ (contacted # <<>> \/ (cb.phase = "replied" /\ C39_EmitsToken)) => C39_Matching(cb)
    /\ ~C39_Matching(cb) => /\ cb.phase = "replied" /\ reply.status = 400
                            /\ contacted = <<>> /\ ~C39_EmitsToken

\* a callback with the cookie of the login has been redirected with a token
C39_RedirectedWithToken ==
  /\ cb.phase = "replied" /\ C39_Matching(cb)
  /\ contacted = <<cb.code>>
  /\ reply.status = 302 /\ C39_EmitsToken
  /\ jar = JsUndefined

\* ---------------------------------------------------------------------
\* The file of the URL: restore at the mount and on history navigation
\* ---------------------------------------------------------------------

MaxHistory == 2

\* `params.get('branch') || 'main'`
UrlBranch(u) == IF u.branch = "" THEN "main" ELSE u.branch

\* the query that the URL effect builds from the state: branch and path are
\* set when they are not empty
UrlOfState == Url(owner, repo, branch, path, "")
search(u) == <<u.owner, u.repo, u.branch, u.path>>

\* the dependencies of the pending-open effect and of the URL effect: owner,
\* repo, branch, tokenPresent and onOpen, which changes with the path
Deps == <<owner, repo, branch, path, hasToken>>

\* no effect is waiting to run
Settled == committed = Deps

\* The first render and its effects: tokenPresent is set from the stored
\* token, the URL is restored, and the two other effects return on the empty
\* owner.  The microtask that lowers isRestoringFromHistory runs before or
\* after the effects of the next render.
Mount ==
  LET u == hist[at]
  IN /\ committed = <<>>
     /\ committed' = <<"", "", "main", "", FALSE>>
     /\ IF u.owner # "" /\ u.repo # ""
        THEN /\ owner' = u.owner /\ repo' = u.repo /\ branch' = UrlBranch(u)
             /\ isRestoringFromHistory' \in BOOLEAN
             /\ IF u.path # ""
                THEN /\ path' = u.path
                     /\ pendingOpenPath' = u.path
                     /\ restoredFor' = [key |-> FileKey(u.owner, u.repo, UrlBranch(u), u.path),
                                        opens |-> 0]
                     /\ UNCHANGED openState
                ELSE /\ openState' = "loaded"
                     /\ UNCHANGED <<path, pendingOpenPath, restoredFor>>
        ELSE UNCHANGED <<owner, repo, branch, path, openState, pendingOpenPath, restoredFor,
                         isRestoringFromHistory>>
     /\ UNCHANGED <<content, sha, saveState, status, hasToken, confirmSaveOpen, shaOf,
                    sinceOpen, remote, calls, hist, at>>
     /\ UNCHANGED <<treeVars, repoVars, dirVars, msgVars, recentVars, userVars, logVars, authVars>>

\* history.pushState(null, '', nextUrl): the entries after the active one go
Pushed(u) == Append(SubSeq(hist, 1, at), u)

\* The effects of a render whose dependencies have changed: the pending-open
\* effect, then the URL effect; the microtask has run when they are done.
RunEffects ==
  LET openDue == pendingOpenPath # "" /\ owner # "" /\ repo # "" /\ hasToken
      syncDue == /\ <<committed[1], committed[2], committed[3], committed[4]>> # search(UrlOfState)
                 /\ ~isRestoringFromHistory
                 /\ owner # "" /\ repo # ""
                 /\ search(UrlOfState) # search(hist[at])
  IN /\ committed # <<>> /\ ~Settled
     /\ IF openDue
        THEN /\ pendingOpenPath' = ""
             /\ OnOpen(owner, repo, branch, pendingOpenPath)
             /\ restoredFor' = [restoredFor EXCEPT !.opens = @ + 1]
        ELSE UNCHANGED <<pendingOpenPath, openState, status, sha, shaOf, calls, restoredFor>>
     /\ IF syncDue
        THEN /\ at < MaxHistory
             /\ hist' = Pushed(UrlOfState)
             /\ at' = at + 1
        ELSE UNCHANGED <<hist, at>>
     /\ committed' = Deps
     /\ isRestoringFromHistory' = FALSE
     /\ sinceOpen' = Null
     /\ UNCHANGED <<owner, repo, branch, path, content, saveState, hasToken, confirmSaveOpen, remote>>
     /\ UNCHANGED <<treeVars, repoVars, dirVars, msgVars, recentVars, userVars, logVars, authVars>>

\* Back (d = -1) or Forward (d = 1): the popstate handler onPop.  The render
\* and its effects come before the microtask; with nothing changed there is
\* no render.
Traverse(d) ==
  LET u == hist[at + d]
      o == u.owner
      r == u.repo
      b == UrlBranch(u)
      p == u.path
  IN /\ at + d \in 1..Len(hist)
     /\ at' = at + d
     /\ owner' = o /\ repo' = r /\ branch' = b /\ path' = p
     /\ IF o # "" /\ r # "" /\ p # ""
        THEN /\ pendingOpenPath' = p
             /\ restoredFor' = [key |-> FileKey(o, r, b, p), opens |-> 0]
             /\ UNCHANGED <<openState, content, sha, shaOf>>
        ELSE /\ openState' = IF o # "" /\ r # "" THEN "loaded" ELSE "idle"
             /\ content' = <<>>
             /\ sha' = IF o # "" /\ r # "" THEN EmptySha ELSE Null
             /\ shaOf' = NoKey
             /\ UNCHANGED <<pendingOpenPath, restoredFor>>
     /\ isRestoringFromHistory' = (<<o, r, b, p, hasToken>> # committed)
     /\ CloseOnContextChange(o, r, b)
     /\ sinceOpen' = Null
     /\ UNCHANGED <<saveState, status, hasToken, remote, calls, hist, committed>>
     /\ UNCHANGED <<treeVars, repoVars, dirVars, msgVars, recentVars, userVars, logVars, authVars>>

\* the user follows a link of the page to an anchor of the page, or types one:
\* a new entry with the same query
FollowAnchor ==
  /\ hist[at].hash = "" /\ at < MaxHistory
  /\ hist' = Pushed([hist[at] EXCEPT !.hash = "#s"])
  /\ at' = at + 1
  /\ UNCHANGED <<session, remote, calls, pendingOpenPath, isRestoringFromHistory, committed,
                 restoredFor>>
  /\ UNCHANGED <<treeVars, repoVars, dirVars, msgVars, recentVars, userVars, logVars, authVars>>

\* the URLs the page can be loaded with, and the token stored or not
Urls == {Url(o, r, b, p, "") : o \in {"", "o1"}, r \in {"", "r1"}, b \in {"", "main"},
                               p \in {"", "a.md"}}

InitRestore ==
  /\ owner = "" /\ repo = "" /\ branch = "main" /\ path = ""
  /\ content = <<>> /\ sha = Null
  /\ openState = "idle" /\ saveState = "idle" /\ status = <<>>
  /\ hasToken \in BOOLEAN
  /\ confirmSaveOpen = FALSE
  /\ remote = [f \in HostedFiles |-> IF f \in ContendedFiles THEN TextList[2] ELSE <<>>]
  /\ calls = [i \in Slots |-> NoCall]
  /\ shaOf = NoKey
  /\ sinceOpen = Null
  /\ TreeInit /\ RepoInit /\ DirInit /\ MsgInit /\ RecentInit /\ UserInit /\ LogInit /\ AuthInit
  /\ \E u \in Urls : hist = <<u>>
  /\ at = 1
  /\ pendingOpenPath = "" /\ isRestoringFromHistory = FALSE
  /\ committed = <<>> /\ restoredFor = NoRestore

NextRestore ==
  \/ Mount
  \/ RunEffects
  \/ Settled /\ \E d \in {-1, 1} : Traverse(d)
  \/ Settled /\ FollowAnchor
  \/ Settled /\ \E v \in SwitchRepos : SetRepo(v) /\ UNCHANGED aside
  \/ Settled /\ \E v \in Paths : SetPath(v) /\ UNCHANGED aside
  \/ Settled /\ OnLogout /\ UNCHANGED aside
  \/ \E i \in Slots : HostServes(i) /\ UNCHANGED aside
  \/ \E i \in Slots : TimeoutFires(i) /\ UNCHANGED aside

SpecRestore == InitRestore /\ [][NextRestore]_vars

\* the pending-open effect issues an Open
C40_EffectOpens == RunEffects /\ calls' # calls

\* C40: a file path restored from the URL query or from history navigation is
\* opened once, and only when owner and repo are set and a credential is
\* present; the Open is issued against the restored owner, repo, branch and
\* path, and the pending path is consumed, so that later changes of the
\* context or of the credential do not open it again.
C40_RestoredPathOpenedOnce ==
  [][C40_EffectOpens
       => /\ owner # "" /\ repo # "" /\ hasToken
          /\ calls'[FreeSlot].file = restoredFor.key
          /\ restoredFor.opens = 0
          /\ pendingOpenPath' = ""]_vars

====
